---- MODULE Spec2Model ----
(***************************************************************************)
(* State-machine model of cosmoprimo's BAO filter engines                  *)
(* (src/cosmoprimo/bao_filter.py) and of the parts of the Cosmology class  *)
(* (src/cosmoprimo/cosmology.py) the filters use.                          *)
(*                                                                         *)
(* Conventions                                                             *)
(*  - A Python object is its attribute dictionary: a function from         *)
(*    attribute names to values.  An attribute that was never assigned is  *)
(*    not in the domain.                                                   *)
(*  - A method is an operator on a frame [obj, exc, trace, env]: obj is    *)
(*    `self`, exc the exception in flight (None when there is none), trace *)
(*    the methods entered and the collaborator calls made so far, env the  *)
(*    behaviour of the numerical libraries on inputs for which the source  *)
(*    does not determine it.  A method applied to a frame whose exc is not *)
(*    None does nothing: the exception propagates.                         *)
(*  - Wavenumbers are integers in units of 1e-5 h/Mpc, separations are     *)
(*    integers in Mpc/h, rs_drag is an integer in units of                 *)
(*    1.0091463132327911 Mpc/h; a quotient is a reduced fraction.          *)
(*  - Values produced by the external collaborators (interpolators,        *)
(*    Boltzmann engines, the least-squares solver, scipy) are symbolic     *)
(*    records naming the collaborator and every argument it was given.     *)
(***************************************************************************)
EXTENDS Integers, Sequences, FiniteSets, TLC

(* ------------------------------ bounds -------------------------------- *)
\* Re-invocations (__call__) of one engine instance that are explored.
MaxCalls == 2
\* Redshift columns of a 2-D interpolator.
MaxZ == 2

VARIABLES
    self,      \* the engine instance (None before a successful construction)
    ret,       \* the last operation: its name, arguments, result, exception,
               \* and the object a failed constructor had half built
    trace,     \* methods entered and collaborator calls of the last operation
    ncalls,    \* number of __call__ so far on the instance
    nprepare,  \* number of times _prepare was entered on the instance
    self0,     \* the instance as the constructor returned it
    given,     \* the cosmologies the caller last supplied to the instance
    instance,  \* the Cosmology the caller holds (None before one is built)
    outcome    \* the last cosmology operation: name, arguments, exception, value

vars == <<self, ret, trace, ncalls, nprepare, self0, given, instance, outcome>>

(* ------------------------------ Python -------------------------------- *)
None == [py |-> "None"]
\* The reference a method returns when it returns self.
Self == [ref |-> "self"]

Exception(type, msg) == [type |-> type, msg |-> msg]

Frame(obj, env) == [obj |-> obj, exc |-> None, trace |-> <<>>, env |-> env, val |-> None]
SetAttr(f, a, v) == [f EXCEPT !.obj = (a :> v) @@ @]
HasAttr(obj, a) == a \in DOMAIN obj
Raise(f, e) == [f EXCEPT !.exc = e]
Log(f, ev) == [f EXCEPT !.trace = Append(@, ev)]
Enter(f, m) == Log(f, m)

RECURSIVE Pow(_, _)
Pow(b, e) == IF e = 0 THEN 1 ELSE b * Pow(b, e - 1)

RECURSIVE GCD(_, _)
GCD(a, b) == IF b = 0 THEN a ELSE GCD(b, a % b)

\* A positive quotient num / den as a reduced fraction.
Quot(num, den) == LET g == GCD(num, den) IN [num |-> num \div g, den |-> den \div g]
One == [num |-> 1, den |-> 1]

SelectIdx(s, Test(_)) == SelectSeq([i \in DOMAIN s |-> i], Test)
Range(s) == {s[i] : i \in DOMAIN s}
StrictlyIncreasing(s) == \A i \in DOMAIN s : i > 1 => s[i - 1] < s[i]

(* ------------------------------ arrays -------------------------------- *)
\* A numpy array of 1 or 2 dimensions: rows along axis 0; a 1-D array is
\* stored as rows of one element.
Array2(rows) == [ndim |-> 2, rows |-> rows]
\* a[..., 0]
Col0(a) == [ndim |-> 1, rows |-> [i \in DOMAIN a.rows |-> <<a.rows[i][1]>>]]
Shape(a) == IF a.ndim = 1 THEN <<Len(a.rows)>> ELSE <<Len(a.rows), Len(a.rows[1])>>
NCols(a) == Len(a.rows[1])

(* --------------------------- collaborators ---------------------------- *)
\* Cosmological parameter sets, named by a number; 0 is the default set.
DefaultParams == 0

\* An engine instance, as get_engine(engine)(**cosmology._params,
\* extra_params=extra_params) builds it.
Engine(name, params, extra_params) ==
    [name |-> name, params |-> params, extra_params |-> extra_params]
\* No keyword arguments: the empty dictionary.
NoExtraParams == << >>

\* Cosmology(engine=None, **params): no engine is attached unless one is given.
Cosmology(engine, params) ==
    [params |-> params,
     _engine |-> IF engine = None THEN None ELSE Engine(engine.name, params, NoExtraParams)]

\* An engine given by its name (a lower-case string).
EngineName(n) == [name |-> n]
\* BaseEngine._registry once get_engine has imported the module of the name.
RegisteredEngine ==
    {"base", "class", "camb", "eisenstein_hu", "eisenstein_hu_nowiggle",
     "eisenstein_hu_nowiggle_variants", "bbks", "astropy", "tabulated"}

\* rs_drag of the Thermodynamics section of an engine.
rs_drag(engine) ==
    IF engine.name = "eisenstein_hu_nowiggle" THEN 96
    ELSE IF engine.params = DefaultParams THEN 100 ELSE 105

\* _get_cosmology_engine that attaches the engine whatever set_engine says.
_get_cosmology_engine_attaching(cosmology, engine, set_engine, extra_params) ==
    IF engine = None /\ cosmology._engine = None
    THEN [exc |-> Exception("CosmologyError", <<"Please provide an engine">>),
          engine |-> None, cosmology |-> cosmology]
    ELSE IF engine # None /\ "params" \notin DOMAIN engine /\ engine.name \notin RegisteredEngine
    THEN [exc |-> Exception("CosmologyError", <<"Unknown engine {}.">>),
          engine |-> None, cosmology |-> cosmology]
    ELSE LET e == IF engine = None THEN cosmology._engine
                  ELSE IF "params" \in DOMAIN engine THEN engine
                  ELSE Engine(engine.name, cosmology.params, extra_params)
         IN [exc |-> None, engine |-> e, cosmology |-> [cosmology EXCEPT !._engine = e]]

\* The result: the exception raised or the engine returned, and the cosmology
\* object as the call leaves it.  engine is None, a name (get_engine looks it
\* up and raises on an unknown one) or a BaseEngine instance.
_get_cosmology_engine(cosmology, engine, set_engine, extra_params) ==
    IF engine = None /\ cosmology._engine = None
    THEN [exc |-> Exception("CosmologyError", <<"Please provide an engine">>),
          engine |-> None, cosmology |-> cosmology]
    ELSE IF engine # None /\ "params" \notin DOMAIN engine /\ engine.name \notin RegisteredEngine
    THEN [exc |-> Exception("CosmologyError", <<"Unknown engine {}.">>),
          engine |-> None, cosmology |-> cosmology]
    ELSE LET e == IF engine = None THEN cosmology._engine
                  ELSE IF "params" \in DOMAIN engine THEN engine
                  ELSE Engine(engine.name, cosmology.params, extra_params)
         IN [exc |-> None, engine |-> e,
             cosmology |-> IF set_engine THEN [cosmology EXCEPT !._engine = e]
                           ELSE cosmology]

\* Module-level section getter Fourier(cosmology, engine=..., set_engine=...).
Fourier(cosmology, engine, set_engine) ==
    _get_cosmology_engine(cosmology, engine, set_engine, NoExtraParams)

\* Cosmology.get_thermodynamics(): engine=None, set_engine=True.
get_thermodynamics(cosmology) ==
    _get_cosmology_engine(cosmology, None, TRUE, NoExtraParams)

RECURSIVE ILog2(_)
ILog2(n) == IF n < 2 THEN 0 ELSE 1 + ILog2(n \div 2)

\* The BAO wiggles of an engine's linear power spectrum relative to the
\* Eisenstein-Hu no-wiggle spectrum, once the broadband polynomial is divided
\* out, as an integer profile in k: the no-wiggle engine has none, a Boltzmann
\* engine oscillates (here with one extremum per octave).
Wiggle(engine, k) ==
    IF engine.name = "eisenstein_hu_nowiggle" THEN 0 ELSE ILog2(k) % 2

\* Interpolators.  redshifts: the z attribute of a 2-D interpolator.
Redshifts == [i \in 1..MaxZ |-> i - 1]

Pk1D(id, kmin, kmax) ==
    [id |-> id, is2d |-> FALSE, z |-> <<>>, extrap_kmin |-> kmin, extrap_kmax |-> kmax]
Pk2D(id, kmin, kmax) ==
    [id |-> id, is2d |-> TRUE, z |-> Redshifts, extrap_kmin |-> kmin, extrap_kmax |-> kmax]
Xi1D(id, smin, smax) ==
    [id |-> id, is2d |-> FALSE, z |-> <<>>, extrap_smin |-> smin, extrap_smax |-> smax]
Xi2D(id, smin, smax) ==
    [id |-> id, is2d |-> TRUE, z |-> Redshifts, extrap_smin |-> smin, extrap_smax |-> smax]

\* interpolator(x, z): the value at abscissa x and redshift z (z = -1: 1-D).
Sample(interp, x, z) == [f |-> "interp", src |-> interp.id, x |-> x, z |-> z]

\* interpolator(grid, interpolator.z, ignore_growth=True) for a 2-D one,
\* interpolator(grid)[:, None] for a 1-D one.
SampleGrid(interp, grid) ==
    Array2([i \in DOMAIN grid |->
              IF interp.is2d
              THEN [j \in DOMAIN interp.z |-> Sample(interp, grid[i], interp.z[j])]
              ELSE <<Sample(interp, grid[i], -1)>>])

\* np.geomspace(start, stop, num) for 0 < start, stop whose quotient is the
\* (num - 1)-th power of one of these fractions (the grid is then exact).
GridRatios == {<<2, 1>>, <<3, 2>>, <<7, 4>>, <<1, 1>>, <<1, 2>>}
RECURSIVE GeomAt(_, _, _)
\* start * (pq[1] / pq[2]) ** (i - 1), or -1 when that is no integer
GeomAt(start, pq, i) ==
    IF i = 1 THEN start
    ELSE LET prev == GeomAt(start, pq, i - 1)
         IN IF prev < 0 \/ (prev * pq[1]) % pq[2] # 0 THEN -1
            ELSE (prev * pq[1]) \div pq[2]
HasGeomspace(start, stop, num) ==
    \E pq \in GridRatios : GeomAt(start, pq, num) = stop
geomspace(start, stop, num) ==
    LET pq == CHOOSE pq \in GridRatios : GeomAt(start, pq, num) = stop
    IN [i \in 1..num |-> GeomAt(start, pq, i)]

(* ------------------- BasePowerSpectrumBAOFilter ------------------------ *)
\* The fixed fiducial sound horizon 100.91463132327911 of rs_drag_ratio, in
\* the unit of rs_drag.
rs_drag_fid == 100

Return(f, v) == [f EXCEPT !.val = v]

\* The exception the numerical libraries raise, when they do, on a grid that
\* is not strictly increasing.
NumericalError == Exception("LinAlgError", <<"singular matrix">>)
Degenerate(f, grid) == ~StrictlyIncreasing(grid) /\ f.env.numerics = "fail"
\* ... or on a least-squares problem with fewer samples than coefficients.
Underdetermined(f, nsamples, ncoeffs) == nsamples < ncoeffs /\ f.env.numerics = "fail"

set_k(f, nk) ==
    IF f.exc # None THEN f
    ELSE SetAttr(Enter(f, "set_k"), "k",
                 geomspace(f.obj.pk_interpolator.extrap_kmin,
                           f.obj.pk_interpolator.extrap_kmax, nk))

\* set_pk that keeps the cosmology of the instance when it is given none.
set_pk_keeping_cosmo(f, pk_interpolator, cosmo) ==
    IF f.exc # None THEN f
    ELSE LET kept == IF cosmo = None /\ HasAttr(f.obj, "_cosmo") THEN f.obj._cosmo ELSE cosmo
             f1 == SetAttr(Enter(f, "set_pk"), "_cosmo", kept)
             f2 == SetAttr(f1, "pk_interpolator", pk_interpolator)
             f3 == SetAttr(f2, "is2d", pk_interpolator.is2d)
         IN SetAttr(Log(f3, "sample"), "pk", SampleGrid(pk_interpolator, f3.obj.k))

set_pk(f, pk_interpolator, cosmo) ==
    IF f.exc # None THEN f
    ELSE LET f1 == SetAttr(Enter(f, "set_pk"), "_cosmo", cosmo)
             f2 == SetAttr(f1, "pk_interpolator", pk_interpolator)
             f3 == SetAttr(f2, "is2d", pk_interpolator.is2d)
         IN SetAttr(Log(f3, "sample"), "pk", SampleGrid(pk_interpolator, f3.obj.k))

\* Property cosmo: the value read is the _cosmo attribute of the result.
cosmo(f) ==
    IF f.obj._cosmo = None THEN SetAttr(f, "_cosmo", Cosmology(None, DefaultParams))
    ELSE f

\* Property cosmo_fid: the value read is the _cosmo_fid attribute of the result.
cosmo_fid(f) ==
    IF f.obj._cosmo_fid = None THEN SetAttr(f, "_cosmo_fid", Cosmology(None, DefaultParams))
    ELSE f

rs_drag_ratio(f) ==
    IF f.exc # None THEN f
    ELSE IF f.obj._cosmo = None THEN Return(f, One)
    ELSE LET nofid == f.obj._cosmo_fid = None
             f1 == IF nofid THEN f ELSE cosmo_fid(f)
             thf == get_thermodynamics(f1.obj._cosmo_fid)
         IN IF ~nofid /\ thf.exc # None THEN Raise(f1, thf.exc)
            ELSE LET den == IF nofid THEN rs_drag_fid ELSE rs_drag(thf.engine)
                     \* the getters work on the objects self holds
                     f2 == cosmo(IF nofid THEN f1 ELSE SetAttr(f1, "_cosmo_fid", thf.cosmology))
                     th == get_thermodynamics(f2.obj._cosmo)
                 IN IF th.exc # None THEN Raise(f2, th.exc)
                    ELSE Return(SetAttr(f2, "_cosmo", th.cosmology),
                                Quot(rs_drag(th.engine), den))

\* The (interpolator, redshift) of the samples of column j at the rows idx.
ColKey(a, idx, j) == {[src |-> a.rows[i][j].src, z |-> a.rows[i][j].z] : i \in Range(idx)}
Take(s, idx) == [n \in DOMAIN idx |-> s[idx[n]]]
ColIdx(a) == 1..NCols(a)

(* ------------------- Hinton2017PowerSpectrumBAOFilter ------------------ *)
\* maxk taken for column j from the maximum of that column.
maxk_of_column(pk, mask, j) == ColKey(pk, mask, j)

\* maxk = logk[np.argmax(logpk[0], axis=0)], the centre of the Gaussian that
\* weights the fit of column j: the samples it is computed from.
maxk(pk, mask, j) == ColKey(pk, mask, 1)

\* _compute whose fit window takes in its two ends.
Hinton2017_compute_closed_window(f) ==
    IF f.exc # None THEN f
    ELSE IF Degenerate(f, f.obj.k) THEN Raise(Enter(f, "_compute"), NumericalError)
    ELSE IF Underdetermined(f, Cardinality({i \in DOMAIN f.obj.k :
                                f.obj.k[i] >= 10 /\ f.obj.k[i] <= 500000}), f.obj.degree)
    THEN Raise(Enter(f, "_compute"), NumericalError)
    ELSE LET o == f.obj
             mask == SelectIdx(o.k, LAMBDA i : o.k[i] >= 10 /\ o.k[i] <= 500000)
             lss(j) == [solver |-> "LeastSquareSolver",
                        powers |-> [n \in 1..o.degree |-> n - 1],
                        x |-> Take(o.k, mask),
                        maxk_of |-> maxk(o.pk, mask, j),
                        sigma |-> o.sigma, weight |-> o.weight,
                        constraint |-> <<3, 3>>,
                        y |-> ColKey(o.pk, mask, j)]
             pknow == Array2([i \in DOMAIN o.k |-> [j \in ColIdx(o.pk) |->
                         IF i \in Range(mask)
                         THEN [f |-> "10**model", lss |-> lss(j), at |-> o.k[i]]
                         ELSE o.pk.rows[i][j]]])
         IN SetAttr(Enter(f, "_compute"), "pknow", pknow)

\* mask = (self.k > 1e-4) & (self.k < 5.)
Hinton2017_compute(f) ==
    IF f.exc # None THEN f
    ELSE IF Degenerate(f, f.obj.k) THEN Raise(Enter(f, "_compute"), NumericalError)
    ELSE IF Underdetermined(f, Cardinality({i \in DOMAIN f.obj.k :
                                f.obj.k[i] > 10 /\ f.obj.k[i] < 500000}), f.obj.degree)
    THEN Raise(Enter(f, "_compute"), NumericalError)
    ELSE LET o == f.obj
             mask == SelectIdx(o.k, LAMBDA i : o.k[i] > 10 /\ o.k[i] < 500000)
             lss(j) == [solver |-> "LeastSquareSolver",
                        powers |-> [n \in 1..o.degree |-> n - 1],
                        x |-> Take(o.k, mask),
                        maxk_of |-> maxk(o.pk, mask, j),
                        sigma |-> o.sigma, weight |-> o.weight,
                        constraint |-> <<3, 3>>,
                        y |-> ColKey(o.pk, mask, j)]
             pknow == Array2([i \in DOMAIN o.k |-> [j \in ColIdx(o.pk) |->
                         IF i \in Range(mask)
                         THEN [f |-> "10**model", lss |-> lss(j), at |-> o.k[i]]
                         ELSE o.pk.rows[i][j]]])
         IN SetAttr(Enter(f, "_compute"), "pknow", pknow)

(* --------------------- SavGolPowerSpectrumBAOFilter -------------------- *)
\* ceil(log(7) / log(num / den)) for num > den > 0.
CeilLog7(num, den) ==
    LET q == Quot(num, den)
    IN CHOOSE c \in 0..8 : /\ Pow(q.num, c) >= 7 * Pow(q.den, c)
                           /\ \A d \in 0..(c - 1) : Pow(q.num, d) < 7 * Pow(q.den, d)

\* The window length rounded to the odd integer at or below c.
nfilter_of_rounded_down(c) == ((c + 1) \div 2) * 2 - 1

\* int(c // 2 * 2 + 1) for c = np.ceil(...)
nfilter_of(c) == (c \div 2) * 2 + 1

SavGol_nfilter(k) == nfilter_of(CeilLog7(k[Len(k)], k[Len(k) - 1]))

SavGol_compute(f) ==
    IF f.exc # None THEN f
    ELSE IF ~StrictlyIncreasing(f.obj.k)
    THEN Raise(Enter(f, "_compute"), Exception("ValueError", <<"nfilter">>))
    ELSE LET o == f.obj
             nk == Len(o.k)
             nfilter == SavGol_nfilter(o.k)
             hnfilter == nfilter \div 2
             all == [i \in 1..nk |-> i]
             sg(i, j) == [f |-> "savgol_filter", window_length |-> nfilter, polyorder |-> 4,
                          x |-> o.k, y |-> ColKey(o.pk, all, j), at |-> o.k[i]]
             \* a[-h:] is the whole array when h = 0
             tail(i) == IF hnfilter = 0 THEN TRUE ELSE i > nk - hnfilter
         IN IF nfilter <= 4 \/ nfilter > nk
            THEN Raise(Enter(f, "_compute"), Exception("ValueError", <<"savgol_filter">>))
            ELSE SetAttr(Enter(f, "_compute"), "pknow",
                         Array2([i \in 1..nk |-> [j \in ColIdx(o.pk) |->
                             IF tail(i) THEN o.pk.rows[i][j] ELSE sg(i, j)]]))

(* ----------------- EHNoWigglePolyPowerSpectrumBAOFilter ---------------- *)
EHNoWigglePoly_compute(f) ==
    IF f.exc # None THEN f
    ELSE IF Degenerate(f, f.obj.k) THEN Raise(Enter(f, "_compute"), NumericalError)
    ELSE LET f0 == Enter(f, "_compute")
             fit(f1) ==
                 LET r == f1.val
                     o == f1.obj
                     \* krange / rs_drag_ratio()
                     mask == SelectIdx(o.k, LAMBDA i :
                                 /\ o.k[i] * r.num >= o.krange[1] * r.den
                                 /\ o.k[i] * r.num <= o.krange[2] * r.den)
                     fo == Fourier(cosmo(f1).obj._cosmo, EngineName("eisenstein_hu_nowiggle"), FALSE)
                     f2 == SetAttr(cosmo(f1), "_cosmo", fo.cosmology)
                     lss(j) == [solver |-> "LeastSquareSolver",
                                powers |-> [n \in 1..6 |-> n - 3],
                                x |-> Take(o.k, mask),
                                constraint |-> <<2, 2>>,
                                y |-> ColKey(o.pk, mask, j),
                                over |-> fo.engine]
                 IN IF Len(mask) < 2
                    THEN Raise(f2, Exception("IndexError", <<"index 1 is out of bounds">>))
                    ELSE IF Underdetermined(f2, Len(mask), 6) THEN Raise(f2, NumericalError)
                    ELSE SetAttr(f2, "pknow",
                         Array2([i \in DOMAIN o.k |-> [j \in ColIdx(o.pk) |->
                             IF i \in Range(mask)
                             THEN [f |-> "pk/(ratio/model)", lss |-> lss(j), at |-> o.k[i]]
                             ELSE o.pk.rows[i][j]]]))
             rescaled(f1) == IF f1.exc # None THEN f1 ELSE fit(f1)
         IN rescaled(IF f0.obj.rescale_krange THEN rs_drag_ratio(f0) ELSE Return(f0, One))

(* ------------------- Wallish2018PowerSpectrumBAOFilter ----------------- *)
\* The value a spline built with extrapolate=False gives outside its knots.
NaN == [f |-> "nan"]

\* The second derivatives of one sub-sequence of transform coefficients are
\* [N, peaks]: N values, peaks[i] > 0 at the indices i (from 0) of peaks, 0
\* elsewhere.  dd[start:].argmax(), -1 when the slice is empty (numpy raises
\* ValueError).
argmax(dd, start) ==
    IF start >= dd.N THEN -1
    ELSE LET at == {i \in DOMAIN dd.peaks : i >= start} \cup {start}
             val(i) == IF i \in DOMAIN dd.peaks THEN dd.peaks[i] ELSE 0
         IN (CHOOSE i \in at : \A q \in at : val(q) < val(i) \/ (val(q) = val(i) /\ i <= q)) - start

\* The index windows (from 0, both ends included) smooth_even_odd excises
\* from the even and the odd sub-sequence, or the exception it raises.
smooth_even_odd(dd_even, dd_odd) ==
    LET margin_first == 20
        margin_second == 5
        offset_even == <<-10, 20>>
        offset_odd == <<-10, 20>>
        argmax_even == argmax(dd_even, margin_first) + margin_first
        argmax_odd == argmax(dd_odd, margin_first) + margin_first
        end_even == argmax(dd_even, argmax_even + margin_first)
        end_odd == argmax(dd_odd, argmax_odd + margin_second)
    IN IF end_even < 0 \/ end_odd < 0
       THEN [exc |-> Exception("ValueError", <<"attempt to get argmax of an empty sequence">>),
             ibox_even |-> << >>, ibox_odd |-> << >>]
       ELSE [exc |-> None,
             ibox_even |-> <<argmax_even + offset_even[1],
                             argmax_even + margin_second + end_even + offset_even[2]>>,
             ibox_odd |-> <<argmax_odd + offset_odd[1],
                            argmax_odd + margin_second + end_odd + offset_odd[2]>>]

\* _tophat whose Gaussian starts at k = 0.
_tophat_from_zero(k, kmax, scale) ==
    IF k > 0
    THEN [f |-> "exp(-scale**2 * (k / kmax - 1.)**2)", k |-> k, kmax |-> kmax, scale |-> scale]
    ELSE One

\* Wallish2018PowerSpectrumBAOFilter._tophat at one k: 1 up to kmax.
_tophat(k, kmax, scale) ==
    IF k > kmax
    THEN [f |-> "exp(-scale**2 * (k / kmax - 1.)**2)", k |-> k, kmax |-> kmax, scale |-> scale]
    ELSE One

\* spline_even(xeven, nu=2) and spline_odd(xodd, nu=2) of the transform of the
\* interpolator's samples: the data each input interpolator stands for.  Both
\* sub-sequences have 4096 / 2 values; every redshift column has the same.
second_derivatives(pk_interpolator) ==
    LET dd(peaks) == [N |-> 2048, peaks |-> peaks]
        typical == (100 :> 3) @@ (300 :> 1)
    IN IF pk_interpolator.id = 2 THEN [even |-> dd(typical), odd |-> dd((90 :> 2) @@ (250 :> 1))]
       ELSE IF pk_interpolator.id = 3 THEN [even |-> dd((2040 :> 1)), odd |-> dd(typical)]
       ELSE IF pk_interpolator.id = 4 THEN [even |-> dd(typical), odd |-> dd((110 :> 2) @@ (2030 :> 1))]
       ELSE [even |-> dd(typical), odd |-> dd(typical)]

Wallish2018_compute(f) ==
    IF f.exc # None THEN f
    ELSE IF Degenerate(f, f.obj.k) THEN Raise(Enter(f, "_compute"), NumericalError)
    ELSE LET o == f.obj
             \* k = np.linspace(extrap_kmin, 2., 4096): k[i] = kmin + i * span / 4095
             kmin == o.pk_interpolator.extrap_kmin
             span == 200000 - kmin
             z(j) == IF o.is2d THEN o.pk_interpolator.z[j] ELSE -1
             fine(j) == [src |-> o.pk_interpolator.id, z |-> z(j), linspace |-> <<kmin, 200000, 4096>>]
             coeffs(part) == [f |-> part, of |-> [j \in ColIdx(o.pk) |-> fine(j)]]
             dd == second_derivatives(o.pk_interpolator)
             boxes == smooth_even_odd(dd.even, dd.odd)
             smoothed(part, d, ibox) == [f |-> "spline(x) / x**2", of |-> coeffs(part), excised |-> ibox,
                                         finite |-> ibox[2] < d.N - 1]
             f0 == Log(Enter(f, "_compute"), "sample")
             f1 == SetAttr(SetAttr(f0, "_dd_even", dd.even), "_dd_odd", dd.odd)
             \* mask = (k > 1e-2) & (k < 1.5) on the fine grid: 4095 * k of its ends
             hasfine == kmin < 150000
             ilo == IF kmin > 1000 THEN 0 ELSE ((1000 - kmin) * 4095) \div span + 1
             ihi == ((150000 - kmin) * 4095 - 1) \div span
             first4095 == kmin * 4095 + ilo * span
             last4095 == kmin * 4095 + ihi * span
             left == SelectIdx(o.k, LAMBDA i : o.k[i] < 50)
             right == SelectIdx(o.k, LAMBDA i : o.k[i] > 200000)
             nknots == Len(left) + (IF hasfine THEN ihi - ilo + 1 ELSE 0) + Len(right)
             KnotBelow(k) == \/ \E n \in DOMAIN left : o.k[left[n]] <= k
                             \/ hasfine /\ (k >= 150000 \/ first4095 <= k * 4095)
                             \/ \E n \in DOMAIN right : o.k[right[n]] <= k
             KnotAbove(k) == \/ \E n \in DOMAIN left : o.k[left[n]] >= k
                             \/ hasfine /\ k < 150000 /\ k * 4095 <= last4095
                             \/ \E n \in DOMAIN right : o.k[right[n]] >= k
             IsFineKnot(k) == hasfine /\ k > 1000 /\ k < 150000 /\ k >= kmin
                              /\ ((k - kmin) * 4095) % span = 0
             kpknow(j) == [f |-> "idst", even |-> smoothed("dst[::2]", dd.even, boxes.ibox_even),
                           odd |-> smoothed("dst[1::2]", dd.odd, boxes.ibox_odd), col |-> j]
             \* CubicSpline(k, pknow, extrapolate=False)(self.k[i])
             spline(i, j) ==
                 IF i \in Range(left) \cup Range(right) THEN o.pk.rows[i][j]
                 ELSE IF IsFineKnot(o.k[i]) THEN [f |-> "exp(kpknow) / k", kpknow |-> kpknow(j), at |-> o.k[i]]
                 ELSE IF KnotBelow(o.k[i]) /\ KnotAbove(o.k[i])
                 THEN [f |-> "CubicSpline", kpknow |-> kpknow(j),
                       left |-> Take(o.k, left), right |-> Take(o.k, right),
                       fine4095 |-> IF hasfine THEN <<first4095, last4095>> ELSE <<>>,
                       y |-> ColKey(o.pk, left \o right, j), at |-> o.k[i]]
                 ELSE NaN
             \* self.pk / ((self.pk / pknow - 1.) * tophat + 1.)
             pknow(i, j) ==
                 IF spline(i, j) = o.pk.rows[i][j] THEN o.pk.rows[i][j]
                 ELSE [f |-> "pk / wiggles", pk |-> o.pk.rows[i][j],
                       wiggles |-> [f |-> "(pk / pknow - 1.) * tophat + 1.", pk |-> o.pk.rows[i][j],
                                    pknow |-> spline(i, j), tophat |-> _tophat(o.k[i], 100000, 20)],
                       at |-> o.k[i]]
         IN IF boxes.exc # None
            THEN Raise(SetAttr(SetAttr(f1, "_even", coeffs("dst[::2]")), "_odd", coeffs("dst[1::2]")),
                       boxes.exc)
            ELSE LET even == smoothed("dst[::2]", dd.even, boxes.ibox_even)
                     odd == smoothed("dst[1::2]", dd.odd, boxes.ibox_odd)
                     \* even and odd are views that the loop over iz fills in place
                     f2 == SetAttr(SetAttr(SetAttr(SetAttr(f1, "_even", even), "_odd", odd),
                                           "_even_now", even), "_odd_now", odd)
                 IN IF ~even.finite \/ ~odd.finite
                    THEN Raise(f2, Exception("ValueError", <<"y must contain only finite values.">>))
                    ELSE IF nknots < 2
                    THEN Raise(f2, Exception("ValueError", <<"x must contain at least 2 elements.">>))
                    ELSE SetAttr(f2, "pknow",
                                 Array2([i \in DOMAIN o.k |-> [j \in ColIdx(o.pk) |-> pknow(i, j)]]))

(* --------------------------- peak detection ---------------------------- *)
\* Python indexing s[i], i counted from 0, or from the end when negative.
PyAt(s, i) == IF i < 0 THEN s[Len(s) + i + 1] ELSE s[i + 1]
\* s[n:]
PyFrom(s, n) == IF n >= Len(s) THEN <<>> ELSE SubSeq(s, n + 1, Len(s))

RECURSIVE SortedSeq(_)
SortedSeq(S) ==
    IF S = {} THEN <<>>
    ELSE LET m == CHOOSE m \in S : \A n \in S : m <= n
         IN <<m>> \o SortedSeq(S \ {m})

\* scipy.signal.find_peaks(x)[0]: the (0-based) indices of the strict local
\* maxima of x, a flat maximum counting once, at the middle of its plateau;
\* the first and the last sample are never peaks.
find_peaks(x) ==
    LET n == Len(x)
        plateau(l, r) == /\ \A m \in l..r : PyAt(x, m) = PyAt(x, l)
                         /\ PyAt(x, l - 1) < PyAt(x, l)
                         /\ PyAt(x, r + 1) < PyAt(x, l)
    IN SortedSeq({(lr[1] + lr[2]) \div 2 :
                     lr \in {p \in (1..(n - 2)) \X (1..(n - 2)) :
                                p[1] <= p[2] /\ plateau(p[1], p[2])}})

Negate(x) == [i \in DOMAIN x |-> 0 - x[i]]
Shift(ix, d) == [i \in DOMAIN ix |-> ix[i] + d]
\* np.searchsorted(a, v, side='right') for a sorted
searchsorted_right(a, v) == Cardinality({i \in DOMAIN a : a[i] <= v})

\* scipy.interpolate.interp1d(x, y, kind=2) needs at least kind + 1 nodes.
interp1d_ok(nodes) == Len(nodes) >= 3

(* ------------------ Brieden2022PowerSpectrumBAOFilter ------------------ *)
Brieden2022_prepare(f) ==
    IF f.exc # None THEN f
    ELSE IF Degenerate(f, f.obj.k) THEN Raise(Enter(f, "_prepare"), NumericalError)
    ELSE LET f0 == Enter(f, "_prepare")
             k == f0.obj.k
             kmask_fid == [i \in DOMAIN k |-> k[i] >= 100 /\ k[i] <= 100000]
             k_fid == Take(k, SelectIdx(k, LAMBDA i : kmask_fid[i]))
             f1 == SetAttr(SetAttr(f0, "kmask_fid", kmask_fid), "k_fid", k_fid)
             f2 == cosmo_fid(f1)
             fo == Fourier(f2.obj._cosmo_fid, None, TRUE)
             nw == Fourier(fo.cosmology, EngineName("eisenstein_hu_nowiggle"), FALSE)
             f3 == SetAttr(cosmo_fid(f2), "_cosmo_fid", nw.cosmology)
             pknow_correction == [f |-> "lss.model", powers |-> [n \in 1..4 |-> n - 2],
                                  constraint |-> <<2, 2>>, x |-> k_fid,
                                  pk_fid |-> fo.engine, pknow_fid |-> nw.engine]
             ratio_fid == [f |-> "ratio/pknow_correction", x |-> k_fid,
                           pk_fid |-> fo.engine, pknow_fid |-> nw.engine,
                           v |-> [i \in DOMAIN k_fid |-> Wiggle(fo.engine, k_fid[i])]]
             ik0 == searchsorted_right(k_fid, 2000) + 1
             found(si) == find_peaks(PyFrom(IF si = 1 THEN ratio_fid.v ELSE Negate(ratio_fid.v), ik0))
             ix(si) == LET p == Shift(found(si), ik0)
                       IN <<0>> \o p \o (IF PyAt(p, -1) < Len(k_fid) - 1 THEN <<-1>> ELSE <<>>)
         IN IF fo.exc # None THEN Raise(f2, fo.exc)
            ELSE IF Len(k_fid) < 2
            THEN Raise(f3, Exception("IndexError", <<"index 1 is out of bounds">>))
            ELSE IF Underdetermined(f3, Len(k_fid), 4) THEN Raise(f3, NumericalError)
            ELSE IF found(1) = <<>> \/ found(-1) = <<>>
            THEN Raise(SetAttr(SetAttr(f3, "pknow_correction", pknow_correction),
                               "ratio_fid", ratio_fid),
                       Exception("IndexError", <<"index 0 is out of bounds for axis 0 with size 0">>))
            ELSE LET ik_fid_peaks == <<ix(1), ix(-1)>>
                     f4 == SetAttr(SetAttr(SetAttr(f3, "pknow_correction", pknow_correction),
                                           "ratio_fid", ratio_fid),
                                   "ik_fid_peaks", ik_fid_peaks)
                 IN IF ~interp1d_ok(ix(1)) \/ ~interp1d_ok(ix(-1))
                    THEN Raise(f4, Exception("ValueError", <<"interp1d">>))
                    ELSE SetAttr(f4, "ratio_now_fid",
                                 [f |-> "_interp", ix |-> ik_fid_peaks, x |-> k_fid, y |-> ratio_fid])

Brieden2022_compute(f) ==
    IF f.exc # None THEN f
    ELSE IF Degenerate(f, f.obj.k) THEN Raise(Enter(f, "_compute"), NumericalError)
    ELSE LET smoothed(f1) ==
                 LET rescale == f1.val
                     nw == Fourier(cosmo(f1).obj._cosmo, EngineName("eisenstein_hu_nowiggle"), FALSE)
                     f2 == SetAttr(Log(f1, "sample"), "_cosmo", nw.cosmology)
                     o == f2.obj
                     z(j) == IF o.is2d THEN o.pk_interpolator.z[j] ELSE -1
                     smooth(j) == [f |-> "clone",
                                   src |-> o.pk_interpolator.id, z |-> z(j),
                                   rescale |-> rescale, pknow |-> nw.engine,
                                   k_fid |-> o.k_fid,
                                   pknow_correction |-> o.pknow_correction,
                                   ratio_fid |-> o.ratio_fid,
                                   ik_fid_peaks |-> o.ik_fid_peaks,
                                   ratio_now_fid |-> o.ratio_now_fid]
                 IN SetAttr(f2, "pknow",
                        Array2([i \in DOMAIN o.k |-> [j \in ColIdx(o.pk) |->
                            IF o.kmask_fid[i]
                            THEN [f |-> "pk_interpolator", of |-> smooth(j), at |-> o.k[i]]
                            ELSE o.pk.rows[i][j]]]))
             rescaled(f1) == IF f1.exc # None THEN f1 ELSE smoothed(f1)
         IN rescaled(rs_drag_ratio(Enter(f, "_compute")))

(* ------------------ PeakAveragePowerSpectrumBAOFilter ------------------ *)
PeakAverage_prepare(f) ==
    IF f.exc # None THEN f
    ELSE IF Degenerate(f, f.obj.k) THEN Raise(Enter(f, "_prepare"), NumericalError)
    ELSE LET f0 == Enter(f, "_prepare")
             k == f0.obj.k
             \* np.flatnonzero: 0-based positions
             index == Shift(SelectIdx(k, LAMBDA i : k[i] >= 10 /\ k[i] <= 100000), -1)
             k_fid == [n \in DOMAIN index |-> PyAt(k, index[n])]
             fo == Fourier(cosmo_fid(f0).obj._cosmo_fid, None, TRUE)
             nw == Fourier(fo.cosmology, EngineName("eisenstein_hu_nowiggle"), FALSE)
             f1 == IF fo.exc # None THEN cosmo_fid(f0)
                   ELSE SetAttr(f0, "_cosmo_fid", nw.cosmology)
             ratio == [i \in DOMAIN k_fid |-> Wiggle(fo.engine, k_fid[i])]
             ik0 == searchsorted_right(k_fid, 1000) + 1
             found(si) == find_peaks(PyFrom(IF si = 1 THEN ratio ELSE Negate(ratio), ik0))
             arange(a, b) == [n \in 1..(IF b > a THEN b - a ELSE 0) |-> a + n - 1]
             max(a, b) == IF a >= b THEN a ELSE b
             kp(si) == LET ik == Shift(found(si), ik0 + index[1])
                           pos == arange(0, index[1]) \o ik
                                  \o arange(max(PyAt(index, -1), PyAt(ik, -1) + 1), Len(k))
                       IN [n \in DOMAIN pos |-> PyAt(k, pos[n])]
         IN IF fo.exc # None THEN Raise(f1, fo.exc)
            ELSE IF Len(k_fid) < 2
            THEN Raise(f1, Exception("IndexError", <<"index 1 is out of bounds">>))
            ELSE IF Underdetermined(f1, Len(k_fid), 4) THEN Raise(f1, NumericalError)
            ELSE IF found(1) = <<>>
            THEN Raise(SetAttr(f1, "k_peaks", <<>>),
                       Exception("IndexError", <<"index -1 is out of bounds for axis 0 with size 0">>))
            ELSE IF found(-1) = <<>>
            THEN Raise(SetAttr(f1, "k_peaks", <<kp(1)>>),
                       Exception("IndexError", <<"index -1 is out of bounds for axis 0 with size 0">>))
            ELSE SetAttr(f1, "k_peaks", <<kp(1), kp(-1)>>)

PeakAverage_compute(f) ==
    IF f.exc # None THEN f
    ELSE IF Degenerate(f, f.obj.k) THEN Raise(Enter(f, "_compute"), NumericalError)
    ELSE LET averaged(f1) ==
                 LET rescale == f1.val
                     nw == Fourier(cosmo(f1).obj._cosmo, EngineName("eisenstein_hu_nowiggle"), FALSE)
                     f2 == SetAttr(f1, "_cosmo", nw.cosmology)
                     o == f2.obj
                     all == [i \in DOMAIN o.k |-> i]
                     env(j) == [f |-> "_interp", xh |-> o.k_peaks[1], xl |-> o.k_peaks[2],
                                rescale |-> rescale, x |-> o.k,
                                y |-> ColKey(o.pk, all, j), pknow |-> nw.engine]
                 IN IF ~interp1d_ok(o.k) \/ ~interp1d_ok(o.k_peaks[1]) \/ ~interp1d_ok(o.k_peaks[2])
                    THEN Raise(f2, Exception("ValueError", <<"interp1d">>))
                    ELSE SetAttr(f2, "pknow",
                        Array2([i \in DOMAIN o.k |-> [j \in ColIdx(o.pk) |->
                            [f |-> "_interp*pknow", of |-> env(j), at |-> o.k[i]]]]))
             rescaled(f1) == IF f1.exc # None THEN f1 ELSE averaged(f1)
         IN rescaled(rs_drag_ratio(Enter(f, "_compute")))

(* ------------- BasePowerSpectrumBAOFilter: the protocol ---------------- *)
Get(kwargs, name, default) == IF name \in DOMAIN kwargs THEN kwargs[name] ELSE default

_prepare(f) ==
    IF f.exc # None THEN f
    ELSE IF f.obj.name = "brieden2022" THEN Brieden2022_prepare(f)
    ELSE IF f.obj.name = "peakaverage" THEN PeakAverage_prepare(f)
    ELSE Enter(f, "_prepare")

_compute(f) ==
    IF f.exc # None THEN f
    ELSE IF f.obj.name = "hinton2017" THEN Hinton2017_compute(f)
    ELSE IF f.obj.name = "savgol" THEN SavGol_compute(f)
    ELSE IF f.obj.name = "ehpoly" THEN EHNoWigglePoly_compute(f)
    ELSE IF f.obj.name = "wallish2018" THEN Wallish2018_compute(f)
    ELSE IF f.obj.name = "brieden2022" THEN Brieden2022_compute(f)
    ELSE IF f.obj.name = "peakaverage" THEN PeakAverage_compute(f)
    ELSE Raise(f, Exception("AttributeError", <<"object has no attribute ", "_compute">>))

\* The attributes the subclass __init__ sets before calling the base __init__.
pk_subclass_init(cls, kwargs) ==
    IF cls = "hinton2017"
    THEN [name |-> cls, degree |-> Get(kwargs, "degree", 13),
          sigma |-> Get(kwargs, "sigma", Quot(1, 2)),
          weight |-> Get(kwargs, "weight", Quot(9, 10))]
    ELSE IF cls = "ehpoly"
    THEN [name |-> cls, krange |-> Get(kwargs, "krange", <<100, 100000>>),
          rescale_krange |-> Get(kwargs, "rescale_krange", TRUE)]
    ELSE [name |-> cls]

pk__init__(cls, pk_interpolator, kwargs, env) ==
    LET f0 == Enter(Frame(pk_subclass_init(cls, kwargs), env), "__init__")
        f1 == SetAttr(f0, "_cosmo_fid", Get(kwargs, "cosmo_fid", None))
        f2 == SetAttr(f1, "pk_interpolator", pk_interpolator)
        f3 == set_k(f2, Get(kwargs, "nk", 1024))
        f4 == set_pk(f3, pk_interpolator, Get(kwargs, "cosmo", None))
        f5 == _prepare(f4)
    IN _compute(f5)

\* __call__ that runs _prepare again on every re-invocation.
pk__call__preparing(f, pk_interpolator, c) ==
    LET squeeze(f2) ==
            IF f2.exc # None THEN f2
            ELSE IF ~f2.obj.is2d
            THEN SetAttr(SetAttr(f2, "pk", Col0(f2.obj.pk)), "pknow", Col0(f2.obj.pknow))
            ELSE f2
        return(f3) == IF f3.exc # None THEN f3 ELSE [f3 EXCEPT !.val = Self]
    IN return(squeeze(_compute(_prepare(set_pk(Enter(f, "__call__"), pk_interpolator, c)))))

\* __call__ that squeezes pk but not pknow.
pk__call__squeezing_pk(f, pk_interpolator, c) ==
    LET squeeze(f2) ==
            IF f2.exc # None THEN f2
            ELSE IF ~f2.obj.is2d
            THEN SetAttr(f2, "pk", Col0(f2.obj.pk))
            ELSE f2
        return(f3) == IF f3.exc # None THEN f3 ELSE [f3 EXCEPT !.val = Self]
    IN return(squeeze(_compute(set_pk(Enter(f, "__call__"), pk_interpolator, c))))

pk__call__(f, pk_interpolator, c) ==
    LET squeeze(f2) ==
            IF f2.exc # None THEN f2
            ELSE IF ~f2.obj.is2d
            THEN SetAttr(SetAttr(f2, "pk", Col0(f2.obj.pk)), "pknow", Col0(f2.obj.pknow))
            ELSE f2
        return(f3) == IF f3.exc # None THEN f3 ELSE [f3 EXCEPT !.val = Self]
    IN return(squeeze(_compute(set_pk(Enter(f, "__call__"), pk_interpolator, c))))

\* numpy's a / b for arrays of one or two dimensions: a 1-D array of
\* length n broadcasts as one row of n columns, an axis of length 1 stretches
\* to the other operand's; None when the shapes cannot be broadcast together.
true_divide(a, b) ==
    LET nrows(x) == IF x.ndim = 1 THEN 1 ELSE Len(x.rows)
        ncols(x) == IF x.ndim = 1 THEN Len(x.rows) ELSE Len(x.rows[1])
        at(x, i, j) == LET ii == IF nrows(x) = 1 THEN 1 ELSE i
                           jj == IF ncols(x) = 1 THEN 1 ELSE j
                       IN IF x.ndim = 1 THEN x.rows[jj][1] ELSE x.rows[ii][jj]
        fits(m, n) == m = n \/ m = 1 \/ n = 1
        max(m, n) == IF m >= n THEN m ELSE n
        quotient(i, j) == [f |-> "/", num |-> at(a, i, j), den |-> at(b, i, j)]
    IN IF ~fits(nrows(a), nrows(b)) \/ ~fits(ncols(a), ncols(b)) THEN None
       ELSE IF a.ndim = 1 /\ b.ndim = 1
       THEN [ndim |-> 1, rows |-> [j \in 1..max(ncols(a), ncols(b)) |-> <<quotient(1, j)>>]]
       ELSE [ndim |-> 2, rows |-> [i \in 1..max(nrows(a), nrows(b)) |->
                                     [j \in 1..max(ncols(a), ncols(b)) |-> quotient(i, j)]]]

\* Property wiggles that divides the arrays the constructor left.
wiggles_of_construction(f) ==
    Return(f, true_divide(self0.pk, self0.pknow))

\* Property wiggles: self.pk / self.pknow.
wiggles(f) ==
    IF true_divide(f.obj.pk, f.obj.pknow) = None
    THEN Raise(f, Exception("ValueError", <<"operands could not be broadcast together">>))
    ELSE Return(f, true_divide(f.obj.pk, f.obj.pknow))

smooth_pk_interpolator(f, kwargs) ==
    Return(f, [f |-> "clone", of |-> f.obj.pk_interpolator.id, is2d |-> f.obj.pk_interpolator.is2d,
               k |-> f.obj.k, pk |-> f.obj.pknow, kwargs |-> kwargs])

smooth_xi_interpolator(f, kwargs) ==
    LET f1 == smooth_pk_interpolator(f, << >>)
    IN Return(f1, [f |-> "to_xi", of |-> f1.val, kwargs |-> kwargs])

(* ---------------- BaseCorrelationFunctionBAOFilter --------------------- *)
set_s(f, ns) ==
    IF f.exc # None THEN f
    ELSE SetAttr(Enter(f, "set_s"), "s",
                 geomspace(f.obj.xi_interpolator.extrap_smin,
                           f.obj.xi_interpolator.extrap_smax, ns))

set_xi(f, xi_interpolator, c) ==
    IF f.exc # None THEN f
    ELSE LET f1 == SetAttr(Enter(f, "set_xi"), "_cosmo", c)
             f2 == SetAttr(f1, "xi_interpolator", xi_interpolator)
             f3 == SetAttr(f2, "is2d", xi_interpolator.is2d)
         IN SetAttr(Log(f3, "sample"), "xi", SampleGrid(xi_interpolator, f3.obj.s))

xi_cosmo(f) ==
    IF f.obj._cosmo = None THEN SetAttr(f, "_cosmo", Cosmology(None, DefaultParams))
    ELSE f

xi_cosmo_fid(f) ==
    IF f.obj._cosmo_fid = None THEN SetAttr(f, "_cosmo_fid", Cosmology(None, DefaultParams))
    ELSE f

\* The fixed fiducial sound horizon of the correlation-function engines.
xi_rs_drag_fid == 100

xi_rs_drag_ratio(f) ==
    IF f.exc # None THEN f
    ELSE IF f.obj._cosmo = None THEN Return(f, One)
    ELSE LET nofid == f.obj._cosmo_fid = None
             f1 == IF nofid THEN f ELSE xi_cosmo_fid(f)
             thf == get_thermodynamics(f1.obj._cosmo_fid)
         IN IF ~nofid /\ thf.exc # None THEN Raise(f1, thf.exc)
            ELSE LET den == IF nofid THEN xi_rs_drag_fid ELSE rs_drag(thf.engine)
                     \* the getters work on the objects self holds
                     f2 == xi_cosmo(IF nofid THEN f1 ELSE SetAttr(f1, "_cosmo_fid", thf.cosmology))
                     th == get_thermodynamics(f2.obj._cosmo)
                 IN IF th.exc # None THEN Raise(f2, th.exc)
                    ELSE Return(SetAttr(f2, "_cosmo", th.cosmology),
                                Quot(rs_drag(th.engine), den))

(* --------------- Kirkby2013CorrelationFunctionBAOFilter ---------------- *)
\* model(s) = [s**(1 - i) for i in range(5)]: the exponents of the basis.
Kirkby2013_model == [n \in 1..5 |-> 1 - (n - 1)]

\* Fit mask with one window open at its gap end.
Kirkby2013_fit_mask_open(x, L, R, r) ==
    \/ (x * r.den >= L[1] * r.num /\ x * r.den < L[2] * r.num)
    \/ (x * r.den >= R[1] * r.num /\ x * r.den <= R[2] * r.num)

\* (s >= srange_left[0]) & (s <= srange_left[1]) | (s >= srange_right[0]) &
\* (s <= srange_right[1]), the ranges multiplied by r = r.num / r.den.
Kirkby2013_fit_mask(x, L, R, r) ==
    \/ (x * r.den >= L[1] * r.num /\ x * r.den <= L[2] * r.num)
    \/ (x * r.den >= R[1] * r.num /\ x * r.den <= R[2] * r.num)

\* Gap mask that takes in the inner ends of the windows.
Kirkby2013_gap_mask_closed(x, L, R, r) ==
    x * r.den >= L[2] * r.num /\ x * r.den <= R[1] * r.num

\* (s > srange_left[1]) & (s < srange_right[0]), the ranges multiplied by r.
Kirkby2013_gap_mask(x, L, R, r) ==
    x * r.den > L[2] * r.num /\ x * r.den < R[1] * r.num

Kirkby2013_compute(f) ==
    IF f.exc # None THEN f
    ELSE IF Degenerate(f, f.obj.s) THEN Raise(Enter(f, "_compute"), NumericalError)
    ELSE LET f0 == Enter(f, "_compute")
             fit(f1) ==
                 LET r == f1.val
                     o == f1.obj
                     s == o.s
                     L == o.srange_left
                     R == o.srange_right
                     mask == SelectIdx(s, LAMBDA i : Kirkby2013_fit_mask(s[i], L, R, r))
                     lss(j) == [solver |-> "LeastSquareSolver", powers |-> Kirkby2013_model,
                                precision |-> One, constraint |-> << >>,
                                x |-> Take(s, mask),
                                y |-> [n \in DOMAIN mask |-> o.xi.rows[mask[n]][j]]]
                     gap(i) == Kirkby2013_gap_mask(s[i], L, R, r)
                 IN IF Underdetermined(f1, Len(mask), Len(Kirkby2013_model))
                    THEN Raise(f1, NumericalError)
                    ELSE SetAttr(f1, "xinow",
                        Array2([i \in DOMAIN s |-> [j \in ColIdx(o.xi) |->
                            IF gap(i)
                            THEN [f |-> "params.dot(model)", lss |-> lss(j), at |-> s[i]]
                            ELSE o.xi.rows[i][j]]]))
             rescaled(f1) == IF f1.exc # None THEN f1 ELSE fit(f1)
         IN rescaled(IF f0.obj.rescale_sbox THEN xi_rs_drag_ratio(f0) ELSE Return(f0, One))

xi_prepare(f) == IF f.exc # None THEN f ELSE Enter(f, "_prepare")

xi_compute(f) ==
    IF f.exc # None THEN f
    ELSE IF f.obj.name = "kirkby2013" THEN Kirkby2013_compute(f)
    ELSE Raise(f, Exception("AttributeError", <<"object has no attribute ", "_compute">>))

xi_subclass_init(cls, kwargs) ==
    IF cls = "kirkby2013"
    THEN [name |-> cls, srange_left |-> Get(kwargs, "srange_left", <<50, 82>>),
          srange_right |-> Get(kwargs, "srange_right", <<150, 190>>),
          rescale_sbox |-> Get(kwargs, "rescale_sbox", TRUE)]
    ELSE [name |-> cls]

xi__init__(cls, xi_interpolator, kwargs, env) ==
    LET f0 == Enter(Frame(xi_subclass_init(cls, kwargs), env), "__init__")
        f1 == SetAttr(f0, "_cosmo_fid", Get(kwargs, "cosmo_fid", None))
        f2 == SetAttr(f1, "xi_interpolator", xi_interpolator)
        f3 == set_s(f2, Get(kwargs, "ns", 1024))
        f4 == set_xi(f3, xi_interpolator, Get(kwargs, "cosmo", None))
        f5 == xi_prepare(f4)
    IN xi_compute(f5)

xi__call__(f, xi_interpolator, c) ==
    LET squeeze(f2) ==
            IF f2.exc # None THEN f2
            ELSE IF ~f2.obj.is2d
            THEN SetAttr(SetAttr(f2, "xi", Col0(f2.obj.xi)), "xinow", Col0(f2.obj.xinow))
            ELSE f2
        return(f3) == IF f3.exc # None THEN f3 ELSE [f3 EXCEPT !.val = Self]
    IN return(squeeze(xi_compute(set_xi(Enter(f, "__call__"), xi_interpolator, c))))

xi_smooth_xi_interpolator(f, kwargs) ==
    Return(f, [f |-> "clone", of |-> f.obj.xi_interpolator.id, is2d |-> f.obj.xi_interpolator.is2d,
               s |-> f.obj.s, xi |-> f.obj.xinow, kwargs |-> kwargs])

xi_smooth_pk_interpolator(f, kwargs) ==
    LET f1 == xi_smooth_xi_interpolator(f, << >>)
    IN Return(f1, [f |-> "to_pk", of |-> f1.val, kwargs |-> kwargs])

(* ------------------------------ factories ------------------------------ *)
\* A Python string is the sequence of its characters.
Uppercase == <<"A", "B", "C", "D", "E", "F", "G", "H", "I", "J", "K", "L", "M", "N", "O", "P", "Q", "R", "S", "T", "U", "V", "W", "X", "Y", "Z">>
Lowercase == <<"a", "b", "c", "d", "e", "f", "g", "h", "i", "j", "k", "l", "m", "n", "o", "p", "q", "r", "s", "t", "u", "v", "w", "x", "y", "z">>
\* str.lower()
lower(str) ==
    [i \in DOMAIN str |->
        IF \E n \in DOMAIN Uppercase : Uppercase[n] = str[i]
        THEN Lowercase[CHOOSE n \in DOMAIN Uppercase : Uppercase[n] = str[i]]
        ELSE str[i]]

\* RegisteredPowerSpectrumBAOFilter._registry: every class created with the
\* metaclass, the base class included, under its name attribute.
RegisteredPowerSpectrumBAOFilter ==
    { <<<<"b", "a", "s", "e">>, "base">>,
      <<<<"h", "i", "n", "t", "o", "n", "2", "0", "1", "7">>, "hinton2017">>,
      <<<<"s", "a", "v", "g", "o", "l">>, "savgol">>,
      <<<<"e", "h", "p", "o", "l", "y">>, "ehpoly">>,
      <<<<"w", "a", "l", "l", "i", "s", "h", "2", "0", "1", "8">>, "wallish2018">>,
      <<<<"b", "r", "i", "e", "d", "e", "n", "2", "0", "2", "2">>, "brieden2022">>,
      <<<<"p", "e", "a", "k", "a", "v", "e", "r", "a", "g", "e">>, "peakaverage">> }

\* RegisteredCorrelationFunctionBAOFilter._registry
RegisteredCorrelationFunctionBAOFilter ==
    { <<<<"b", "a", "s", "e">>, "base">>,
      <<<<"k", "i", "r", "k", "b", "y", "2", "0", "1", "3">>, "kirkby2013">> }

Registered(registry, key) == \E e \in registry : e[1] = key
Lookup(registry, key) == (CHOOSE e \in registry : e[1] = key)[2]

PowerSpectrumBAOFilter(pk_interpolator, engine, kwargs, env) ==
    LET key == lower(engine)
    IN IF ~Registered(RegisteredPowerSpectrumBAOFilter, key)
       THEN Raise(Frame(None, env),
                  [type |-> "ValueError", msg |-> <<"Power spectrum BAO filter {} is unknown">>,
                   format |-> key])
       ELSE pk__init__(Lookup(RegisteredPowerSpectrumBAOFilter, key), pk_interpolator, kwargs, env)

CorrelationFunctionBAOFilter(xi_interpolator, engine, kwargs, env) ==
    LET key == lower(engine)
    IN IF ~Registered(RegisteredCorrelationFunctionBAOFilter, key)
       THEN Raise(Frame(None, env),
                  [type |-> "ValueError", msg |-> <<"Correlation function BAO filter {} is unknown">>,
                   format |-> key])
       ELSE xi__init__(Lookup(RegisteredCorrelationFunctionBAOFilter, key), xi_interpolator, kwargs, env)

(* ------------------------- cosmology parameters ------------------------ *)
\* A parameter dictionary is a function from names to values.  A value is
\* None, a number [raw |-> n], a string [str |-> s], a list [list |-> seq] or
\* the result [f |-> ..., of |-> ...] of a derivation named by its formula.
\* A neutrino mass of a list is [m |-> n], massless when n = 0.
Pop(d, name) == [n \in DOMAIN d \ {name} |-> d[n]]
Put(d, name, v) == [n \in DOMAIN d \cup {name} |-> IF n = name THEN v ELSE d[n]]

\* The conflict group of a parameter name, {} when it has none.
find_conflicts(name) ==
    LET conflicts == { {"h", "H0"},
                       {"T_cmb", "Omega_g", "omega_g", "Omega0_g"},
                       {"Omega_b", "omega_b", "Omega0_b"},
                       {"N_ur", "Omega_ur", "omega_ur", "Omega0_ur", "N_eff"},
                       {"Omega_cdm", "omega_cdm", "Omega0_cdm", "Omega_c", "omega_c",
                        "Omega_m", "omega_m", "Omega0_m"},
                       {"m_ncdm", "Omega_ncdm", "omega_ncdm", "Omega0_ncdm"},
                       {"A_s", "ln10^{10}A_s", "sigma8"},
                       {"tau_reio", "z_reio"} }
    IN IF \E conf \in conflicts : name \in conf
       THEN CHOOSE conf \in conflicts : name \in conf
       ELSE {}

\* merge_params that drops from args only the names moreargs redefines.
merge_params_by_name(args, moreargs) ==
    [n \in DOMAIN args \cup DOMAIN moreargs |->
        IF n \in DOMAIN moreargs THEN moreargs[n] ELSE args[n]]

\* args less every name in conflict with a name of moreargs, updated with
\* moreargs.
merge_params(args, moreargs) ==
    LET popped == {eq \in DOMAIN args : \E name \in DOMAIN moreargs : eq \in find_conflicts(name)}
    IN [n \in (DOMAIN args \ popped) \cup DOMAIN moreargs |->
           IF n \in DOMAIN moreargs THEN moreargs[n] ELSE args[n]]

\* The exception check_params raises, None when it returns.
check_params(args) ==
    IF \E name \in DOMAIN args : \E eq \in find_conflicts(name) : eq # name /\ eq \in DOMAIN args
    THEN Exception("CosmologyError", <<"Conflicting parameters are given: {}">>)
    ELSE None

\* The set_alias(params_name, args_name) calls of compile_params, in order,
\* from call number n on, on r = [exc, params]:
\* params[params_name] = params.pop(args_name) when args_name is in args.
RECURSIVE set_alias(_, _, _)
set_alias(r, args, n) ==
    LET Aliases ==
            << <<"T_cmb", "T0_cmb">>, <<"Omega_m", "Omega0_m">>, <<"Omega_cdm", "Omega0_cdm">>,
               <<"Omega_cdm", "Omega_c">>, <<"Omega_ncdm", "Omega0_ncdm">>, <<"Omega_b", "Omega0_b">>,
               <<"Omega_k", "Omega0_k">>, <<"Omega_ur", "Omega0_ur">>, <<"Omega_fld", "Omega0_fld">>,
               <<"Omega_ncdm", "Omega0_ncdm">>, <<"Omega_g", "Omega0_g">> >>
    IN IF n > Len(Aliases) \/ r.exc # None THEN r
       ELSE LET params_name == Aliases[n][1]
                args_name == Aliases[n][2]
            IN IF args_name \notin DOMAIN args THEN set_alias(r, args, n + 1)
               ELSE IF args_name \notin DOMAIN r.params
               THEN [r EXCEPT !.exc = Exception("KeyError", <<args_name>>)]
               ELSE set_alias([r EXCEPT !.params = Put(Pop(@, args_name), params_name, @[args_name])],
                              args, n + 1)

Derived(f, of) == [f |-> f, of |-> of]
\* The result [exc, params] of compile_params(args).
compile_params(args) ==
    LET Fail(type, msg) == [exc |-> Exception(type, <<msg>>), params |-> << >>]
        \* np.ndim(v) == 0
        IsScalar(v) == "list" \notin DOMAIN v
        \* m > m_massive
        IsMassive(m) == IF "m" \in DOMAIN m THEN m.m > 0 ELSE TRUE
        Repeat(v, n) == [i \in 1..n |-> v]
        \* name.replace('omega', 'Omega') for the names that start with 'omega'
        OmegaName ==
            [omega_g |-> "Omega_g", omega_b |-> "Omega_b", omega_ur |-> "Omega_ur",
             omega_cdm |-> "Omega_cdm", omega_c |-> "Omega_c", omega_m |-> "Omega_m",
             omega_ncdm |-> "Omega_ncdm"]
        Ok(p) == [exc |-> None, params |-> p]
        \* z_pk, modes; Omega_m
        last(p, m_ncdm) ==
            LET z == IF "z_pk" \notin DOMAIN p \/ p["z_pk"] = None
                     THEN Derived("get_default_z_callable() + [0.]", << >>)
                     ELSE p["z_pk"]
                mo == IF "modes" \notin DOMAIN p \/ p["modes"] = None THEN [list |-> <<[str |-> "s"]>>]
                      ELSE IF IsScalar(p["modes"]) THEN [list |-> <<p["modes"]>>] ELSE p["modes"]
                p1 == Put(Put(p, "z_pk", z), "modes", mo)
            IN IF "Omega_m" \notin DOMAIN p1 THEN Ok(p1)
               ELSE IF "Omega_b" \notin DOMAIN p1 THEN Fail("KeyError", "Omega_b")
               ELSE Ok(Put(Pop(p1, "Omega_m"), "Omega_cdm",
                           Derived("Omega_m - Omega_b - nonrelativistic_ncdm",
                                   <<p1["Omega_m"], p1["Omega_b"], m_ncdm>>)))
        \* N_ur, N_eff; the massive species
        species(p, m_ncdm, T) ==
            LET N0 == IF "Omega_ur" \in DOMAIN p
                      THEN Derived("Omega_ur / (rho / (h**2 * rho_crit))",
                                   <<p["Omega_ur"], p["T_cmb"], p["h"]>>)
                      ELSE IF "N_ur" \in DOMAIN p THEN p["N_ur"] ELSE None
                N_eff == IF "N_eff" \in DOMAIN p THEN p["N_eff"] ELSE [raw |-> 0]
                mask == SelectIdx(m_ncdm, LAMBDA i : IsMassive(m_ncdm[i]))
                N_ur == IF N0 = None
                        THEN Derived("N_eff - sum(T_ncdm_over_cmb[mask_m]**4) * (4. / 11.)**(-4. / 3.)",
                                     <<N_eff, Take(T, mask)>>)
                        ELSE N0
                p1 == Pop(Pop(p, "Omega_ur"), "N_eff")
            IN last(Put(Put(Put(p1, "N_ur", N_ur), "m_ncdm", [list |-> Take(m_ncdm, mask)]),
                        "T_ncdm_over_cmb", [list |-> Take(T, mask)]),
                    Take(m_ncdm, mask))
        \* neutrino_hierarchy
        hierarchy(p, m_ncdm, single_ncdm, T) ==
            IF "neutrino_hierarchy" \notin DOMAIN p \/ p["neutrino_hierarchy"] = None
            THEN species(Pop(p, "neutrino_hierarchy"), m_ncdm, T)
            ELSE IF ~single_ncdm
            THEN Fail("CosmologyError", "neutrino_hierarchy {} cannot be passed with a list for m_ncdm, only with a sum.")
            ELSE IF p["neutrino_hierarchy"].str \in {"normal", "inverted", "degenerate"}
            THEN species(Pop(p, "neutrino_hierarchy"),
                         [i \in 1..3 |-> Derived(p["neutrino_hierarchy"].str, <<i, m_ncdm[1]>>)],
                         Repeat(T[1], 3))
            ELSE Fail("CosmologyError", "Unkown neutrino mass type {}")
        \* the list m_ncdm and its temperatures
        masses(p, m, T0) ==
            LET single_ncdm == m # None /\ IsScalar(m)
                m_ncdm == IF m = None THEN << >> ELSE IF single_ncdm THEN <<m>> ELSE m.list
                T == IF IsScalar(T0) THEN Repeat(T0, Len(m_ncdm)) ELSE T0.list
            IN IF Len(T) # Len(m_ncdm)
               THEN Fail("TypeError", "T_ncdm_over_cmb and m_ncdm must be of same length")
               ELSE hierarchy(p, m_ncdm, single_ncdm, T)
        \* m_ncdm, or Omega_ncdm inverted to masses
        ncdm(p) ==
            LET T00 == IF "T_ncdm_over_cmb" \in DOMAIN p THEN p["T_ncdm_over_cmb"] ELSE None
                T0 == IF T00 \in {None, [list |-> << >>]} THEN [raw |-> 0] ELSE T00
            IN IF "m_ncdm" \in DOMAIN p THEN masses(Pop(p, "m_ncdm"), p["m_ncdm"], T0)
               ELSE IF "Omega_ncdm" \notin DOMAIN p THEN masses(p, [list |-> << >>], T0)
               ELSE LET O == p["Omega_ncdm"]
                        single == O # None /\ IsScalar(O)
                        Ol == IF O = None THEN << >> ELSE IF single THEN <<O>> ELSE O.list
                        Tl == IF IsScalar(T0) THEN Repeat(T0, Len(Ol)) ELSE T0.list
                        solve == [i \in DOMAIN Ol |->
                                    IF Ol[i] = [raw |-> 0] THEN [m |-> 0]
                                    ELSE Derived("solve_newton", <<Ol[i], p["h"], p["T_cmb"], Tl[i]>>)]
                    IN IF Len(Tl) # Len(Ol)
                       THEN Fail("TypeError", "T_ncdm_over_cmb and Omega_ncdm must be of same length")
                       ELSE masses(Pop(p, "Omega_ncdm"),
                                   IF single THEN solve[1] ELSE [list |-> solve], T0)
        \* ln10^{10}A_s; Omega_g
        amplitudes(p) ==
            LET p1 == IF "ln10^{10}A_s" \in DOMAIN p
                      THEN Put(Pop(p, "ln10^{10}A_s"), "A_s",
                               Derived("exp(ln10^{10}A_s) * 10**(-10)", <<p["ln10^{10}A_s"]>>))
                      ELSE p
            IN ncdm(IF "Omega_g" \in DOMAIN p1
                    THEN Put(Pop(p1, "Omega_g"), "T_cmb",
                             Derived("(Omega_g * h**2 * rho_crit / (4. / c**3 * Stefan_Boltzmann))**(0.25)",
                                     <<p1["Omega_g"], p1["h"]>>))
                    ELSE p1)
        aliased(r) == IF r.exc # None THEN r ELSE amplitudes(r.params)
        \* omega -> Omega for the names of args that start with 'omega'
        omegas(p) ==
            LET names == {n \in DOMAIN args : n \in DOMAIN OmegaName /\ n \in DOMAIN p}
            IN aliased(set_alias(Ok([n \in (DOMAIN p \ names) \cup {OmegaName[m] : m \in names} |->
                                       IF \E m \in names : OmegaName[m] = n
                                       THEN Derived("omega / h**2",
                                                    <<p[CHOOSE m \in names : OmegaName[m] = n], p["h"]>>)
                                       ELSE p[n]]),
                                 args, 1))
        \* H0 -> h
        hubble(p) ==
            IF "H0" \in DOMAIN p
            THEN omegas(Put(Pop(p, "H0"), "h", Derived("H0 / 100.", <<p["H0"]>>)))
            ELSE IF "h" \notin DOMAIN p THEN Fail("KeyError", "h")
            ELSE omegas(p)
    IN hubble(args)

\* Cosmology.get_default_parameters(include_conflicts=False)
get_default_parameters ==
    [n \in {"h", "Omega_cdm", "Omega_b", "Omega_k", "sigma8", "k_pivot", "n_s", "alpha_s", "r",
            "T_cmb", "m_ncdm", "neutrino_hierarchy", "T_ncdm_over_cmb", "N_eff", "tau_reio",
            "reionization_width", "A_L", "w0_fld", "wa_fld",
            "non_linear", "modes", "lensing", "z_pk", "kmax_pk", "ellmax_cl"} |->
        IF n \in {"m_ncdm", "neutrino_hierarchy", "z_pk"} THEN None
        ELSE IF n = "modes" THEN [str |-> "s"]
        ELSE IF n = "non_linear" THEN [str |-> ""]
        ELSE [raw |-> 0]]

(* ------------------------------ Cosmology ------------------------------ *)
\* The methods return [exc, val, self]: the exception raised, the value
\* returned, and the cosmology as the call leaves it (None when __init__
\* raised).  A cosmology is [params, _engine], as _get_cosmology_engine takes it.

\* Cosmology.set_engine
Cosmology_set_engine(cosmology, engine, set_engine, extra_params) ==
    LET r == _get_cosmology_engine(cosmology, engine, set_engine, extra_params)
    IN IF r.exc # None THEN [exc |-> r.exc, val |-> None, self |-> r.cosmology]
       ELSE [exc |-> None, val |-> None, self |-> [r.cosmology EXCEPT !._engine = r.engine]]

\* Cosmology.__init__(engine, extra_params, **params)
Cosmology__init__(engine, extra_params, params) ==
    LET compiled == compile_params(merge_params(get_default_parameters, params))
        new == [params |-> compiled.params, _engine |-> engine]
    IN IF check_params(params) # None THEN [exc |-> check_params(params), val |-> None, self |-> None]
       ELSE IF compiled.exc # None THEN [exc |-> compiled.exc, val |-> None, self |-> None]
       ELSE IF engine = None THEN [exc |-> None, val |-> None, self |-> new]
       ELSE LET r == Cosmology_set_engine(new, engine, TRUE,
                                          IF extra_params = None THEN NoExtraParams ELSE extra_params)
            IN IF r.exc # None THEN [r EXCEPT !.self = None] ELSE r

\* Cosmology.clone(engine, extra_params, **params)
Cosmology_clone(cosmology, engine, extra_params, params) ==
    LET compiled == compile_params(merge_params(cosmology.params, params))
        new == [cosmology EXCEPT !.params = compiled.params]
        name == IF engine = None /\ cosmology._engine # None
                THEN EngineName(cosmology._engine.name) ELSE engine
        extra == IF extra_params # None THEN extra_params
                 ELSE IF cosmology._engine # None THEN cosmology._engine.extra_params
                 ELSE NoExtraParams
    IN IF check_params(params) # None THEN [exc |-> check_params(params), val |-> None, self |-> cosmology]
       ELSE IF compiled.exc # None THEN [exc |-> compiled.exc, val |-> None, self |-> cosmology]
       ELSE IF name = None THEN [exc |-> None, val |-> new, self |-> cosmology]
       ELSE LET r == Cosmology_set_engine(new, name, TRUE, extra)
            IN [exc |-> r.exc, val |-> IF r.exc = None THEN r.self ELSE None, self |-> cosmology]

\* Cosmology.__eq__ of two Cosmology instances
Cosmology__eq__(cosmology, other) ==
    other.params = cosmology.params /\ other._engine = cosmology._engine

\* Cosmology.get_<section>(engine, set_engine, **extra_params): the section
\* is named by itself and the engine it belongs to.
getter(cosmology, section, engine, set_engine, extra_params) ==
    LET r == _get_cosmology_engine(cosmology, engine, set_engine, extra_params)
    IN IF r.exc # None THEN [exc |-> r.exc, val |-> None, self |-> r.cosmology]
       ELSE [exc |-> None, val |-> [section |-> section, engine |-> r.engine], self |-> r.cosmology]

(* -------------------------------- classy ------------------------------- *)
\* BaseEngine._rescale_sigma8
_rescale_sigma8(engine) ==
    IF "sigma8" \in DOMAIN engine.params
    THEN Derived("self['sigma8'] / fo.sigma8_m", <<engine.params["sigma8"]>>)
    ELSE [raw |-> 1]

\* The structured array pyclass returns for a section: the column of the
\* abscissa and one column of values.
pyclass_table(section, abscissa, column) ==
    (abscissa :> Derived(abscissa, <<section.engine>>))
    @@ (column :> Derived(column, <<section.engine>>))

\* table with the columns that do not start with prefix multiplied by rsigma8**2
Rescaled(table, prefix, rsigma8) ==
    [name \in DOMAIN table |->
        IF name = prefix THEN table[name]
        ELSE Derived("*= self._rsigma8**2", <<table[name], rsigma8>>)]

\* classy.Primordial.table: the function ends without a return statement.
Primordial_table(section) ==
    LET table == Rescaled(pyclass_table(section, "k", "P_scalar"), "k", _rescale_sigma8(section.engine))
    IN [exc |-> None, val |-> None]

\* classy.Harmonic.unlensed_table
Harmonic_unlensed_table(section) ==
    LET table == Rescaled(pyclass_table(section, "ell", "tt"), "ell", _rescale_sigma8(section.engine))
    IN [exc |-> None, val |-> table]

(* ------------------------------- inputs -------------------------------- *)
\* Engine names a caller passes to the factories.
EngineStrings ==
    { <<"w", "a", "l", "l", "i", "s", "h", "2", "0", "1", "8">>,
      <<"H", "I", "N", "T", "O", "N", "2", "0", "1", "7">>,
      <<"S", "a", "v", "G", "o", "l">>,
      <<"E", "H", "p", "o", "l", "y">>,
      <<"B", "r", "i", "e", "d", "e", "n", "2", "0", "2", "2">>,
      <<"P", "e", "a", "k", "A", "v", "e", "r", "a", "g", "e">>,
      <<"b", "a", "s", "e">>,
      <<"B", "a", "s", "e">>,
      <<"k", "i", "r", "k", "b", "y", "2", "0", "1", "3">>,
      <<"K", "I", "R", "K", "B", "Y", "2", "0", "1", "3">>,
      <<"b", "s", "p", "l", "i", "n", "e">>,
      <<>> }

PkInterps ==
    { Pk1D(1, 5, 655360), Pk2D(2, 5, 655360), Pk1D(3, 6400, 72900),
      Pk1D(5, 1000, 1000), Pk2D(6, 2000, 1000), Pk1D(7, 1000, 512000),
      Pk1D(8, 1024, 16807) }
\* The interpolators an engine is re-invoked on.
PkCallInterps == { Pk1D(1, 5, 655360), Pk2D(4, 10, 100000) }
XiInterps ==
    { Xi1D(1, 32, 243), Xi2D(2, 32, 243), Xi2D(3, 512, 19683), Xi1D(4, 100, 100) }
XiCallInterps == { Xi1D(1, 32, 243), Xi2D(5, 10, 300) }
\* Numbers of grid points a caller asks for.
GridSizes == {2, 6, 7, 10, 18}
CosmoArgs == {None, Cosmology(EngineName("class"), 1)}
CosmoFidArgs == {None, Cosmology(EngineName("class"), 0),
                 Cosmology(EngineName("eisenstein_hu_nowiggle"), 0)}
Envs == {[numerics |-> "ok"], [numerics |-> "fail"]}
SRanges == { <<<<50, 82>>, <<150, 190>>>>, <<<<768, 1728>>, <<5832, 13122>>>> }

(* --------------------------- cosmology inputs -------------------------- *)
\* The keyword arguments **params of a call: none, one name, or two names.
\* The names are every name of a conflict group, names accepted as aliases
\* only, and names without conflicts; the pairs are of one group, and of two.
ParamDicts ==
    LET ParamValues(name) ==
            IF name = "m_ncdm" THEN {[m |-> 0], [m |-> 1], [list |-> <<[m |-> 1], [m |-> 1]>>]}
            ELSE IF name = "neutrino_hierarchy" THEN {[str |-> "degenerate"], [str |-> "foo"]}
            ELSE IF name = "Omega_ncdm" THEN {[raw |-> 0], [raw |-> 1]}
            ELSE {[raw |-> 1]}
        ParamNames ==
            {"h", "H0",
             "T_cmb", "Omega_g", "omega_g", "Omega0_g", "T0_cmb",
             "Omega_b", "omega_b", "Omega0_b",
             "N_ur", "Omega_ur", "omega_ur", "Omega0_ur", "N_eff",
             "Omega_cdm", "omega_cdm", "Omega0_cdm", "Omega_c", "omega_c",
             "Omega_m", "omega_m", "Omega0_m",
             "m_ncdm", "Omega_ncdm", "omega_ncdm", "Omega0_ncdm",
             "A_s", "ln10^{10}A_s", "sigma8",
             "tau_reio", "z_reio",
             "neutrino_hierarchy", "n_s"}
        ParamPairs ==
            { {"h", "H0"}, {"A_s", "sigma8"}, {"Omega_m", "omega_b"}, {"omega_c", "Omega0_m"},
              {"m_ncdm", "neutrino_hierarchy"}, {"H0", "omega_cdm"}, {"Omega_b", "Omega0_b"},
              {"tau_reio", "z_reio"}, {"N_eff", "m_ncdm"}, {"Omega0_ncdm", "omega_ncdm"} }
    IN {<< >>}
       \cup UNION {[{name} -> ParamValues(name)] : name \in ParamNames}
       \cup UNION {{p \in [pair -> UNION {ParamValues(name) : name \in pair}] :
                       \A name \in pair : p[name] \in ParamValues(name)} : pair \in ParamPairs}

\* The keyword arguments of clone, and of Cosmology when an engine is given.
CloneParams ==
    {p \in ParamDicts : DOMAIN p \in {{}, {"H0"}, {"omega_c"}, {"Omega_m"}, {"sigma8"}, {"A_s"}, {"m_ncdm"},
                                      {"Omega0_ncdm"}, {"neutrino_hierarchy"}, {"n_s"},
                                      {"h", "H0"}, {"A_s", "sigma8"}}}

\* extra_params: not given, or one precision parameter.
ExtraParams == {None, "k_per_decade" :> [raw |-> 1]}

(* ------------------------------ the state ------------------------------ *)
NoArgs == [py |-> "()"]

Init ==
    /\ self = None
    /\ ret = [op |-> "none", exc |-> None, val |-> None, args |-> NoArgs, partial |-> None]
    /\ trace = << >>
    /\ ncalls = 0
    /\ nprepare = 0
    /\ self0 = None
    /\ given = [cosmo |-> None, cosmo_fid |-> None]
    /\ instance = None
    /\ outcome = [op |-> "none", args |-> NoArgs, exc |-> None, val |-> None]

Count(t, m) == Cardinality({i \in DOMAIN t : t[i] = m})
IsPk == self # None /\ HasAttr(self, "k")
IsXi == self # None /\ HasAttr(self, "s")

\* A constructor ran: the caller holds the instance unless it raised.
Constructed(f, op, args) ==
    /\ self' = IF f.exc = None THEN f.obj ELSE None
    /\ self0' = self'
    /\ ret' = [op |-> op, exc |-> f.exc, val |-> IF f.exc = None THEN Self ELSE None,
               args |-> args, partial |-> IF f.exc = None THEN None ELSE f.obj]
    /\ trace' = f.trace
    /\ ncalls' = 0
    /\ nprepare' = IF f.exc = None THEN Count(f.trace, "_prepare") ELSE 0
    /\ given' = [cosmo |-> args.cosmo, cosmo_fid |-> args.cosmo_fid]
    /\ UNCHANGED <<instance, outcome>>

\* A method of the instance ran: the instance keeps what the method assigned.
Called(f, op, args) ==
    /\ self' = f.obj
    /\ ret' = [op |-> op, exc |-> f.exc, val |-> IF f.exc = None THEN f.val ELSE None,
               args |-> args, partial |-> None]
    /\ trace' = f.trace
    /\ nprepare' = nprepare + Count(f.trace, "_prepare")
    /\ UNCHANGED <<self0, instance, outcome>>

EHpolyKey == <<"e", "h", "p", "o", "l", "y">>

NewPowerSpectrumBAOFilter ==
    /\ ret.op = "none"
    /\ \E engine \in EngineStrings, P \in PkInterps, nk \in GridSizes,
          c \in CosmoArgs, cf \in CosmoFidArgs, rescale \in BOOLEAN, env \in Envs :
        /\ HasGeomspace(P.extrap_kmin, P.extrap_kmax, nk)
        /\ (lower(engine) # EHpolyKey => rescale)
        /\ LET kwargs == IF lower(engine) = EHpolyKey
                         THEN [nk |-> nk, cosmo |-> c, cosmo_fid |-> cf, rescale_krange |-> rescale]
                         ELSE [nk |-> nk, cosmo |-> c, cosmo_fid |-> cf]
           IN Constructed(PowerSpectrumBAOFilter(P, engine, kwargs, env),
                          "PowerSpectrumBAOFilter",
                          [engine |-> engine, interpolator |-> P, cosmo |-> c, cosmo_fid |-> cf])

NewCorrelationFunctionBAOFilter ==
    /\ ret.op = "none"
    /\ \E engine \in EngineStrings, X \in XiInterps, ns \in GridSizes,
          c \in CosmoArgs, cf \in CosmoFidArgs, rescale \in BOOLEAN, sr \in SRanges,
          env \in Envs :
        /\ HasGeomspace(X.extrap_smin, X.extrap_smax, ns)
        /\ LET kirkby == Registered(RegisteredCorrelationFunctionBAOFilter, lower(engine))
                         /\ Lookup(RegisteredCorrelationFunctionBAOFilter, lower(engine)) = "kirkby2013"
               kwargs == IF kirkby
                         THEN [ns |-> ns, cosmo |-> c, cosmo_fid |-> cf, rescale_sbox |-> rescale,
                               srange_left |-> sr[1], srange_right |-> sr[2]]
                         ELSE [ns |-> ns, cosmo |-> c, cosmo_fid |-> cf]
           IN /\ (~kirkby => rescale /\ sr[1][1] = 50)
              /\ Constructed(CorrelationFunctionBAOFilter(X, engine, kwargs, env),
                             "CorrelationFunctionBAOFilter",
                             [engine |-> engine, interpolator |-> X, cosmo |-> c, cosmo_fid |-> cf])

CallPk ==
    /\ IsPk /\ ncalls < MaxCalls
    /\ \E P \in PkCallInterps, c \in CosmoArgs, env \in Envs :
        /\ Called(pk__call__(Frame(self, env), P, c), "__call__",
                  [interpolator |-> P, cosmo |-> c])
        /\ ncalls' = ncalls + 1
        /\ given' = [given EXCEPT !.cosmo = c]

CallXi ==
    /\ IsXi /\ ncalls < MaxCalls
    /\ \E X \in XiCallInterps, c \in CosmoArgs, env \in Envs :
        /\ Called(xi__call__(Frame(self, env), X, c), "__call__",
                  [interpolator |-> X, cosmo |-> c])
        /\ ncalls' = ncalls + 1
        /\ given' = [given EXCEPT !.cosmo = c]

RsDragRatioPk ==
    /\ IsPk
    /\ Called(rs_drag_ratio(Frame(self, [numerics |-> "ok"])), "rs_drag_ratio", NoArgs)
    /\ UNCHANGED <<ncalls, given>>

RsDragRatioXi ==
    /\ IsXi
    /\ Called(xi_rs_drag_ratio(Frame(self, [numerics |-> "ok"])), "rs_drag_ratio", NoArgs)
    /\ UNCHANGED <<ncalls, given>>

SmoothPkInterpolator ==
    /\ IsPk
    /\ Called(smooth_pk_interpolator(Frame(self, [numerics |-> "ok"]), << >>),
              "smooth_pk_interpolator", NoArgs)
    /\ UNCHANGED <<ncalls, given>>

SmoothXiInterpolator ==
    /\ IsXi
    /\ Called(xi_smooth_xi_interpolator(Frame(self, [numerics |-> "ok"]), << >>),
              "smooth_xi_interpolator", NoArgs)
    /\ UNCHANGED <<ncalls, given>>

Wiggles ==
    /\ IsPk
    /\ Called(wiggles(Frame(self, [numerics |-> "ok"])), "wiggles", NoArgs)
    /\ UNCHANGED <<ncalls, given>>

Next ==
    \/ NewPowerSpectrumBAOFilter
    \/ NewCorrelationFunctionBAOFilter
    \/ CallPk
    \/ CallXi
    \/ RsDragRatioPk
    \/ RsDragRatioXi
    \/ SmoothPkInterpolator
    \/ SmoothXiInterpolator
    \/ Wiggles

Spec == Init /\ [][Next]_vars

(* ------------------------- the cosmology state ------------------------- *)
\* A cosmology operation ran: the caller holds the cosmology as it leaves it.
Did(r, op, args) ==
    /\ instance' = r.self
    /\ outcome' = [op |-> op, args |-> args, exc |-> r.exc, val |-> r.val]
    /\ UNCHANGED <<self, ret, trace, ncalls, nprepare, self0, given>>

NewCosmology ==
    \E args \in [engine : {None}, extra_params : {None}, params : ParamDicts]
                 \cup [engine : {EngineName("class"), EngineName("foo")}, extra_params : ExtraParams,
                       params : CloneParams] :
        Did(Cosmology__init__(args.engine, args.extra_params, args.params), "Cosmology", args)

Clone ==
    /\ instance # None
    /\ \E engine \in {None, EngineName("camb")}, extra_params \in ExtraParams, params \in CloneParams :
        Did(Cosmology_clone(instance, engine, extra_params, params), "clone",
            [engine |-> engine, extra_params |-> extra_params, params |-> params])

SetEngine ==
    /\ instance # None
    /\ \E engine \in {None, EngineName("camb"), EngineName("foo")}, set_engine \in BOOLEAN :
        Did(Cosmology_set_engine(instance, engine, set_engine, NoExtraParams), "set_engine",
            [engine |-> engine, set_engine |-> set_engine])

GetSection ==
    /\ instance # None
    /\ \E engine \in {None, EngineName("camb"), EngineName("foo")}, set_engine \in BOOLEAN :
        Did(getter(instance, "fourier", engine, set_engine, NoExtraParams), "get_fourier",
            [engine |-> engine, set_engine |-> set_engine])

CallFourier ==
    /\ instance # None
    /\ \E engine \in {None, EngineName("camb"), EngineName("foo")}, set_engine \in BOOLEAN :
        LET r == Fourier(instance, engine, set_engine)
        IN Did([exc |-> r.exc,
                val |-> IF r.exc = None THEN [section |-> "fourier", engine |-> r.engine] ELSE None,
                self |-> r.cosmology],
               "Fourier", [engine |-> engine, set_engine |-> set_engine])

IsClass == instance # None /\ instance._engine # None /\ instance._engine.name = "class"

PrimordialTable ==
    /\ IsClass
    /\ LET r == Primordial_table([section |-> "primordial", engine |-> instance._engine])
       IN Did([exc |-> r.exc, val |-> r.val, self |-> instance], "Primordial.table", NoArgs)

HarmonicUnlensedTable ==
    /\ IsClass
    /\ LET r == Harmonic_unlensed_table([section |-> "harmonic", engine |-> instance._engine])
       IN Did([exc |-> r.exc, val |-> r.val, self |-> instance], "Harmonic.unlensed_table", NoArgs)

NextCosmology ==
    \/ NewCosmology
    \/ Clone
    \/ SetEngine
    \/ GetSection
    \/ CallFourier
    \/ PrimordialTable
    \/ HarmonicUnlensedTable

SpecCosmology == Init /\ [][NextCosmology]_vars

(* ------------------------ merge_params on its own ---------------------- *)
\* args is the default dictionary, a compiled one or a caller's.
InitParams ==
    /\ self = None
    /\ ret = [op |-> "none", exc |-> None, val |-> None, args |-> NoArgs, partial |-> None]
    /\ trace = << >>
    /\ ncalls = 0
    /\ nprepare = 0
    /\ self0 = None
    /\ given = [cosmo |-> None, cosmo_fid |-> None]
    /\ instance = None
    /\ outcome \in [op : {"none"}, exc : {None}, val : {None},
                    args : [args : {get_default_parameters,
                                    compile_params(get_default_parameters).params} \cup ParamDicts,
                            moreargs : ParamDicts]]

MergeParams ==
    /\ outcome.op = "none"
    /\ Did([exc |-> None, val |-> merge_params(outcome.args.args, outcome.args.moreargs),
            self |-> instance], "merge_params", outcome.args)

SpecParams == InitParams /\ [][MergeParams]_vars

(* ---------------------- the sections of an engine ---------------------- *)
\* The section names of cosmology._Sections, lower-cased.
_Sections ==
    {"background", "thermodynamics", "primordial", "perturbations", "transfer", "harmonic", "fourier"}
\* The sections of classy whose __init__ asks the engine for the factor.
RescaledSections == {"primordial", "harmonic", "fourier"}
\* The depth of nested calls after which Python raises RecursionError.
RecursionLimit == 5

RECURSIVE BaseEngine_rescale_sigma8(_, _), BaseEngine_getter(_, _, _)

\* _rescale_sigma8 that keeps the sections built while the factor is computed.
BaseEngine_rescale_sigma8_keeping_sections(f, depth) ==
    IF f.exc # None THEN f
    ELSE IF depth = 0 THEN Raise(f, Exception("RecursionError", <<"maximum recursion depth exceeded">>))
    ELSE IF HasAttr(f.obj, "_rsigma8") THEN Return(f, f.obj._rsigma8)
    ELSE LET f0 == SetAttr(f, "_rsigma8", [raw |-> 1])
             rescaled(fo) ==
                 IF fo.exc # None THEN fo
                 ELSE LET r == IF fo.val._rsigma8 = [raw |-> 1]
                               THEN _rescale_sigma8([params |-> fo.obj._params])
                               ELSE Derived("self['sigma8'] / fo.sigma8_m",
                                            <<fo.obj._params["sigma8"], fo.val._rsigma8>>)
                      IN Return(SetAttr(Log(fo, "self['sigma8'] / fo.sigma8_m"), "_rsigma8", r), r)
         IN IF "sigma8" \in DOMAIN f.obj._params
            THEN rescaled(BaseEngine_getter(SetAttr(f0, "_sections", << >>), "fourier", depth - 1))
            ELSE Return(f0, [raw |-> 1])

\* BaseEngine._rescale_sigma8, on the frame of the engine; the frame's trace
\* gets one entry each time the factor self['sigma8'] / fo.sigma8_m is computed.
BaseEngine_rescale_sigma8(f, depth) ==
    IF f.exc # None THEN f
    ELSE IF depth = 0 THEN Raise(f, Exception("RecursionError", <<"maximum recursion depth exceeded">>))
    ELSE IF HasAttr(f.obj, "_rsigma8") THEN Return(f, f.obj._rsigma8)
    ELSE LET f0 == SetAttr(f, "_rsigma8", [raw |-> 1])
             rescaled(fo) ==
                 IF fo.exc # None THEN fo
                 ELSE LET r == IF fo.val._rsigma8 = [raw |-> 1]
                               THEN _rescale_sigma8([params |-> fo.obj._params])
                               ELSE Derived("self['sigma8'] / fo.sigma8_m",
                                            <<fo.obj._params["sigma8"], fo.val._rsigma8>>)
                          f1 == SetAttr(Log(fo, "self['sigma8'] / fo.sigma8_m"), "_rsigma8", r)
                      IN Return(SetAttr(f1, "_sections", << >>), r)
         IN IF "sigma8" \in DOMAIN f.obj._params
            THEN rescaled(BaseEngine_getter(SetAttr(f0, "_sections", << >>), "fourier", depth - 1))
            ELSE Return(f0, [raw |-> 1])

\* The getter of _make_section_getter(section): the section is built by
\* self._Sections[name](self) unless the cache holds it.  Primordial, Harmonic
\* and Fourier of classy keep the factor the engine gives them when built.
BaseEngine_getter(f, name, depth) ==
    IF f.exc # None THEN f
    ELSE IF depth = 0 THEN Raise(f, Exception("RecursionError", <<"maximum recursion depth exceeded">>))
    ELSE IF name \in DOMAIN f.obj._sections THEN Return(f, f.obj._sections[name])
    ELSE LET built(f1) ==
                 IF f1.exc # None THEN f1
                 ELSE LET section == IF name \in RescaledSections
                                     THEN [section |-> name, _rsigma8 |-> f1.val]
                                     ELSE [section |-> name]
                      IN Return(SetAttr(f1, "_sections", Put(f1.obj._sections, name, section)), section)
         IN built(IF name \in RescaledSections THEN BaseEngine_rescale_sigma8(f, depth - 1) ELSE f)

\* BaseEngine.__init__: the parameters as given and an empty section cache.
BaseEngine__init__(params) == ("_params" :> params) @@ ("_sections" :> << >>)

\* A call on the engine the caller holds; trace collects the computations of
\* the factor over the engine's life.
EngineDid(f, op, args) ==
    /\ instance' = f.obj
    /\ outcome' = [op |-> op, args |-> args, exc |-> f.exc, val |-> f.val]
    /\ trace' = trace \o f.trace
    /\ UNCHANGED <<self, ret, ncalls, nprepare, self0, given>>

NewEngine ==
    /\ instance = None
    /\ \E params \in {p \in CloneParams : DOMAIN p \in {{}, {"sigma8"}, {"A_s"}, {"n_s"}}} :
        \* the engine Cosmology(engine='class', **params) attaches
        LET cosmology == Cosmology__init__(EngineName("class"), None, params).self
        IN EngineDid(Frame(BaseEngine__init__(cosmology._engine.params), [numerics |-> "ok"]),
                     "ClassEngine", [params |-> params])

GetEngineSection ==
    /\ instance # None
    /\ \E name \in _Sections :
        EngineDid(BaseEngine_getter(Frame(instance, [numerics |-> "ok"]), name, RecursionLimit),
                  "get_section", [name |-> name])

SpecSections == Init /\ [][NewEngine \/ GetEngineSection]_vars

(* ------------------------------ properties ----------------------------- *)
OkEnv == [numerics |-> "ok"]

\* The frame the last __call__ would have ended in, had it been the only call
\* on the instance the constructor returned.
CallAlone ==
    IF HasAttr(self0, "k")
    THEN pk__call__(Frame(self0, OkEnv), ret.args.interpolator, ret.args.cosmo)
    ELSE xi__call__(Frame(self0, OkEnv), ret.args.interpolator, ret.args.cosmo)

\* C1: a re-invocation __call__(P, c) that returns, returns the engine itself,
\* and the engine then holds what __call__(P, c) alone leaves on the freshly
\* constructed engine (raw and smooth arrays, grid, current cosmology),
\* whatever calls came before; a cosmology given earlier is not retained
\* when the last call passes none.
C1_ReinvocationIndependent ==
    (ret.op = "__call__" /\ ret.exc = None) =>
        /\ ret.val = Self
        /\ CallAlone.exc = None
        /\ self = CallAlone.obj
        /\ (ret.args.cosmo = None =>
               self._cosmo \in {None, Cosmology(None, DefaultParams)})

\* C1 witness: a second call, without cosmology, on an engine constructed with
\* a cosmology, that returned and changed what the engine holds.
C1_Witness ==
    /\ ret.op = "__call__" /\ ret.exc = None /\ ncalls = 2
    /\ self0._cosmo # None /\ ret.args.cosmo = None
    /\ self # self0

ConstructorOps == {"PowerSpectrumBAOFilter", "CorrelationFunctionBAOFilter"}
\* The last operation was a construction or a re-invocation, and it returned.
EngineReturned == ret.op \in ConstructorOps \cup {"__call__"} /\ ret.exc = None

GridAttrs == {"k", "s"}
CacheAttrs == {"kmask_fid", "k_fid", "pknow_correction", "ratio_fid", "ik_fid_peaks",
               "ratio_now_fid", "k_peaks"}
FirstIdx(t, m) == CHOOSE i \in DOMAIN t : t[i] = m /\ \A j \in 1..(i - 1) : t[j] # m

\* C2: _prepare runs exactly once per instance, in the constructor, after the
\* grid and the first sampling are set and before the first _compute, and not
\* in a re-invocation; the grid and every cached per-fiducial quantity are
\* what the constructor left, after any calls on any interpolators.
C2_PreparedOnce ==
    self # None =>
        /\ nprepare = 1
        /\ \A a \in GridAttrs \cup CacheAttrs :
               /\ HasAttr(self, a) <=> HasAttr(self0, a)
               /\ HasAttr(self, a) => self[a] = self0[a]
        /\ ret.op \in ConstructorOps =>
               /\ Count(trace, "_prepare") = 1
               /\ \E g \in {"set_k", "set_s"} :
                      g \in Range(trace) /\ FirstIdx(trace, g) < FirstIdx(trace, "_prepare")
               /\ FirstIdx(trace, "sample") < FirstIdx(trace, "_prepare")
               /\ FirstIdx(trace, "_prepare") < FirstIdx(trace, "_compute")
        /\ ret.op = "__call__" => Count(trace, "_prepare") = 0

\* C2 witness: a Brieden2022 engine after its second call, which returned, on
\* an interpolator with other extrapolation bounds than the constructor's.
C2_Witness ==
    /\ ret.op = "__call__" /\ ret.exc = None /\ ncalls = 2
    /\ HasAttr(self, "ratio_now_fid")
    /\ ret.args.interpolator.extrap_kmin # self0.pk_interpolator.extrap_kmin
    /\ self.pk # self0.pk

\* The abscissa a raw or a smoothed array element belongs to.
At(e) == IF "at" \in DOMAIN e THEN e.at ELSE e.x
RowsOnGrid(a, grid) ==
    /\ Len(a.rows) = Len(grid)
    /\ \A i \in DOMAIN grid : \A j \in DOMAIN a.rows[i] : At(a.rows[i][j]) = grid[i]

C4_SoundHorizonRatio ==
    ret.op = "rs_drag_ratio" =>
        /\ ret.exc = None
        /\ ret.val = IF given.cosmo = None THEN One
                     ELSE Quot(rs_drag(given.cosmo._engine),
                               IF given.cosmo_fid = None THEN 100
                               ELSE rs_drag(given.cosmo_fid._engine))
        /\ given.cosmo_fid = None => self._cosmo_fid = None

\* The registry a factory looks the name up in, and the name it raises with.
FactoryRegistry ==
    IF ret.op = "PowerSpectrumBAOFilter" THEN RegisteredPowerSpectrumBAOFilter
    ELSE RegisteredCorrelationFunctionBAOFilter
FactoryKey == lower(ret.args.engine)
\* The strategies of the two families.
Strategies ==
    IF ret.op = "PowerSpectrumBAOFilter"
    THEN {"hinton2017", "savgol", "ehpoly", "wallish2018", "brieden2022", "peakaverage"}
    ELSE {"kirkby2013"}
Names(exc, str) == "format" \in DOMAIN exc /\ exc.format \in {str, lower(str)}

\* C5: a factory resolves the engine name case-insensitively: a name whose
\* lowercase form is registered yields an instance of exactly that strategy
\* (or the error that strategy's own set-up or filtering raises on this
\* input); any other name raises an unknown-engine error naming the string,
\* with no engine constructed and the interpolator never sampled.
C5_FactoryLookup ==
    ret.op \in ConstructorOps =>
        IF Registered(FactoryRegistry, FactoryKey)
        THEN /\ Lookup(FactoryRegistry, FactoryKey) \in Strategies
             /\ ret.exc = None => self.name = Lookup(FactoryRegistry, FactoryKey)
             /\ ret.exc # None => ret.exc.type # "AttributeError"
        ELSE /\ ret.exc # None /\ ret.exc.type = "ValueError"
             /\ Names(ret.exc, ret.args.engine)
             /\ self = None /\ ret.partial = None
             /\ "sample" \notin Range(trace)

\* C6: constructing an engine on an interpolator whose lower extrapolation
\* bound is not below its upper one fails with an invalid-range error, raised
\* before the interpolator is sampled and before any filtering is computed.
C6_InvalidRangeRejected ==
    (/\ ret.op \in ConstructorOps
     /\ Registered(FactoryRegistry, FactoryKey)
     /\ IF ret.op = "PowerSpectrumBAOFilter"
        THEN ret.args.interpolator.extrap_kmin >= ret.args.interpolator.extrap_kmax
        ELSE ret.args.interpolator.extrap_smin >= ret.args.interpolator.extrap_smax)
    => /\ ret.exc # None
       /\ \E n \in DOMAIN ret.exc.msg : ret.exc.msg[n] = "invalid range"
       /\ "sample" \notin Range(trace)
       /\ "_compute" \notin Range(trace)

\* C7: smooth_pk_interpolator() clones the input interpolator with k = the
\* grid and pk = the current pknow, and that pknow has the dimensionality of
\* the input: 1-D of length nk for a 1-D interpolator, [k, z] for a 2-D one,
\* right after construction as well as after a re-invocation.
C7_SmoothInterpolatorDimension ==
    (ret.op = "smooth_pk_interpolator" /\ ret.exc = None) =>
        /\ ret.val.f = "clone" /\ ret.val.of = self.pk_interpolator.id
        /\ ret.val.k = self.k /\ ret.val.pk = self.pknow
        /\ Shape(self.pknow) = IF self.is2d
                               THEN <<Len(self.k), Len(self.pk_interpolator.z)>>
                               ELSE <<Len(self.k)>>

\* A Kirkby2013 engine right after a construction or a re-invocation returned.
KirkbyReturned == EngineReturned /\ HasAttr(self, "s") /\ self.name = "kirkby2013"
\* The factor the two ranges are multiplied by.
KirkbyRescale ==
    IF self.rescale_sbox THEN xi_rs_drag_ratio(Frame(self, OkEnv)).val ELSE One
\* s <= srange_left[1] * rescale or s >= srange_right[0] * rescale
OutsideGap(x) ==
    \/ x * KirkbyRescale.den <= self.srange_left[2] * KirkbyRescale.num
    \/ x * KirkbyRescale.den >= self.srange_right[1] * KirkbyRescale.num
\* s inside one of the closed windows [L[0], L[1]], [R[0], R[1]], rescaled
InWindows(x) ==
    \/ /\ x * KirkbyRescale.den >= self.srange_left[1] * KirkbyRescale.num
       /\ x * KirkbyRescale.den <= self.srange_left[2] * KirkbyRescale.num
    \/ /\ x * KirkbyRescale.den >= self.srange_right[1] * KirkbyRescale.num
       /\ x * KirkbyRescale.den <= self.srange_right[2] * KirkbyRescale.num

\* C8: Kirkby2013 leaves xi untouched outside the gap: xinow equals xi at
\* every grid point s with s <= L[1] or s >= R[0] (the ranges rescaled by
\* rs_drag_ratio() when rescale_sbox is set), in every redshift column.
C8_OutsideGapUntouched ==
    KirkbyReturned =>
        \A i \in DOMAIN self.s : \A j \in DOMAIN self.xi.rows[i] :
            OutsideGap(self.s[i]) => self.xinow.rows[i][j] = self.xi.rows[i][j]

\* C8 witness: a Kirkby2013 engine whose grid has a point on the inner end of
\* the left window, points below the left and above the right window, and a
\* gap point that was replaced.
C8_Witness ==
    /\ KirkbyReturned /\ KirkbyRescale = One
    /\ \E i \in DOMAIN self.s : self.s[i] = self.srange_left[2]
    /\ \E i \in DOMAIN self.s : self.s[i] = self.srange_right[1]
    /\ \E i \in DOMAIN self.s : self.s[i] < self.srange_left[1]
    /\ \E i \in DOMAIN self.s : self.s[i] > self.srange_right[2]
    /\ \E i \in DOMAIN self.s : self.xinow.rows[i] # self.xi.rows[i]

\* The grid indices of the points in the two closed windows.
WindowIdx == SelectIdx(self.s, LAMBDA n : InWindows(self.s[n]))

\* C9: at every grid point strictly inside the gap, xinow is the value there
\* of one polynomial in the five powers s^1, s^0, s^-1, s^-2, s^-3, fitted by
\* unweighted, unconstrained least squares to the raw xi of the same column
\* at exactly the grid points of the two closed windows, none of them in the
\* gap.
C9_GapIsWindowFit ==
    KirkbyReturned =>
        \A i \in DOMAIN self.s : \A j \in DOMAIN self.xi.rows[i] :
            ~OutsideGap(self.s[i]) =>
                /\ self.xinow.rows[i][j] =
                       [f |-> "params.dot(model)",
                        lss |-> [solver |-> "LeastSquareSolver",
                                 powers |-> <<1, 0, -1, -2, -3>>,
                                 precision |-> One, constraint |-> << >>,
                                 x |-> Take(self.s, WindowIdx),
                                 y |-> [n \in DOMAIN WindowIdx |-> self.xi.rows[WindowIdx[n]][j]]],
                        at |-> self.s[i]]
                /\ \A n \in DOMAIN WindowIdx : OutsideGap(self.s[WindowIdx[n]])

\* C9 witness: a Kirkby2013 engine on a 2-D interpolator with gap points, at
\* least five window points, and grid points on the inner ends of both windows.
C9_Witness ==
    /\ KirkbyReturned /\ self.is2d /\ KirkbyRescale = One
    /\ Len(WindowIdx) >= 5
    /\ \E i \in DOMAIN self.s : ~OutsideGap(self.s[i])
    /\ \E n \in DOMAIN WindowIdx : self.s[WindowIdx[n]] = self.srange_left[2]
    /\ \E n \in DOMAIN WindowIdx : self.s[WindowIdx[n]] = self.srange_right[1]

\* Peak detection found no maximum, or no minimum, of the fiducial ratio above
\* the low-k cutoff, in the object a failed constructor had half built.
NoPeakFound ==
    /\ ret.partial # None /\ HasAttr(ret.partial, "name")
    /\ \/ /\ ret.partial.name = "brieden2022"
          /\ HasAttr(ret.partial, "ratio_fid")
          /\ LET ik0 == searchsorted_right(ret.partial.k_fid, 2000) + 1
                 v == ret.partial.ratio_fid.v
             IN \/ find_peaks(PyFrom(v, ik0)) = << >>
                \/ find_peaks(PyFrom(Negate(v), ik0)) = << >>
       \/ /\ ret.partial.name = "peakaverage"
          /\ HasAttr(ret.partial, "k_peaks")
          /\ Len(ret.partial.k_peaks) < 2

\* C10: when peak detection in Brieden2022 or PeakAverage finds no maximum or
\* no minimum, construction fails with an error describing that no BAO
\* feature was detected.
C10_NoPeakReported ==
    (ret.op = "PowerSpectrumBAOFilter" /\ NoPeakFound) =>
        /\ ret.exc # None
        /\ ret.exc.type # "IndexError"
        /\ \E n \in DOMAIN ret.exc.msg : ret.exc.msg[n] = "no BAO feature detected"

\* A strategy of the family was constructed with neither a current nor a
\* fiducial cosmology.
NoCosmologySupplied ==
    /\ ret.op \in ConstructorOps
    /\ Registered(FactoryRegistry, FactoryKey)
    /\ Lookup(FactoryRegistry, FactoryKey) \in Strategies
    /\ ret.args.cosmo = None /\ ret.args.cosmo_fid = None
\* The strategies that read the fiducial, and the current, cosmology.
NeedsCosmoFid == {"brieden2022", "peakaverage"}
NeedsCosmo == {"ehpoly", "brieden2022", "peakaverage"}

\* C11: constructing a strategy with neither cosmology supplied never fails
\* for want of a cosmology or of an engine on it, and the engine returned
\* holds the default Cosmology() wherever the strategy read cosmo_fid / cosmo.
C11_DefaultCosmologyOnDemand ==
    NoCosmologySupplied =>
        /\ ret.exc # None => ret.exc.type # "CosmologyError"
        /\ ret.exc = None =>
               /\ self.name \in NeedsCosmoFid =>
                      self._cosmo_fid = Cosmology(None, DefaultParams)
               /\ self.name \in NeedsCosmo =>
                      self._cosmo = Cosmology(None, DefaultParams)

\* The object the last operation worked on: the instance, or what a failed
\* constructor had built of it.
Worked == IF self # None THEN self ELSE ret.partial

\* C12: after every operation of a filter (construction, re-invocation,
\* rs_drag_ratio, smooth_*_interpolator), returned or raised, a cosmology the
\* caller supplied is as it was supplied, parameters and attached engine (the
\* no-wiggle engine used internally is not attached to it), and the
\* interpolator the engine holds is the one supplied, unchanged.
C12_CollaboratorsNotMutated ==
    (ret.op # "none" /\ Worked # None /\ HasAttr(Worked, "_cosmo")) =>
        /\ given.cosmo # None => Worked._cosmo = given.cosmo
        /\ given.cosmo_fid # None => Worked._cosmo_fid = given.cosmo_fid
        /\ Worked._cosmo # None /\ given.cosmo = None => Worked._cosmo._engine = None
        /\ ret.args # NoArgs =>
               IF HasAttr(Worked, "k")
               THEN Worked.pk_interpolator = ret.args.interpolator
               ELSE Worked.xi_interpolator = ret.args.interpolator

\* C12 witness: a Brieden2022 engine given both cosmologies, with a Boltzmann
\* engine attached to each, was re-invoked and then asked rs_drag_ratio().
C12_Witness ==
    /\ ret.op = "rs_drag_ratio" /\ ret.exc = None /\ ncalls > 0
    /\ self.name = "brieden2022"
    /\ given.cosmo # None /\ given.cosmo_fid # None
    /\ self._cosmo._engine.name = "class" /\ self._cosmo_fid._engine.name = "class"

SuppliedRatio ==
    IF given.cosmo = None THEN One
    ELSE Quot(rs_drag(given.cosmo._engine),
              IF given.cosmo_fid = None THEN rs_drag_fid
              ELSE rs_drag(given.cosmo_fid._engine))
\* The strategies that filter inside a window of k only.
Windowed == {"hinton2017", "ehpoly", "brieden2022"}
\* k lies outside the window of the strategy of self.
OutsideWindow(x) ==
    IF self.name = "hinton2017" THEN x <= 10 \/ x >= 500000
    ELSE IF self.name = "brieden2022" THEN x < 100 \/ x > 100000
    ELSE LET r == IF self.rescale_krange THEN SuppliedRatio ELSE One
         IN \/ x * r.num < self.krange[1] * r.den
            \/ x * r.num > self.krange[2] * r.den

\* C20: after a construction or a re-invocation that returned, a windowed
\* strategy holds pknow = pk at every grid point outside its window, in every
\* redshift column: k <= 1e-4 or k >= 5 for Hinton2017, outside the closed
\* [krange[0], krange[1]] (each divided by rs_drag_ratio() when
\* rescale_krange) for EHpoly, outside the closed [1e-3, 1] for Brieden2022.
C20_OutsideWindowUntouched ==
    (EngineReturned /\ HasAttr(self, "k") /\ self.name \in Windowed) =>
        \A i \in DOMAIN self.k : \A j \in DOMAIN self.pk.rows[i] :
            OutsideWindow(self.k[i]) => self.pknow.rows[i][j] = self.pk.rows[i][j]

\* C20 witness: an EHpoly engine with a rescaled window on a 2-D interpolator,
\* with grid points below, inside and above the window, the inner ones
\* filtered.
C20_Witness ==
    /\ EngineReturned /\ HasAttr(self, "k") /\ self.name = "ehpoly"
    /\ self.rescale_krange /\ SuppliedRatio # One /\ self.is2d
    /\ \E i \in DOMAIN self.k : OutsideWindow(self.k[i]) /\ self.k[i] < self.krange[1]
    /\ \E i \in DOMAIN self.k : OutsideWindow(self.k[i]) /\ self.k[i] > self.krange[2]
    /\ \E i \in DOMAIN self.k : ~OutsideWindow(self.k[i]) /\ self.pknow.rows[i] # self.pk.rows[i]

(* ------------------------ properties of Cosmology ---------------------- *)
EngineOps == {"set_engine", "get_fourier", "Fourier"}

\* C14: a call of Cosmology.set_engine, Cosmology.get_fourier or the
\* module-level Fourier with set_engine=False leaves attached to the cosmology
\* the engine that was attached before the call (possibly none); a call of a
\* getter with set_engine=True that returns leaves attached the engine whose
\* section it returns.
C14_SetEngineFalseNeverAttaches ==
    [][outcome'.op \in EngineOps =>
          /\ ~outcome'.args.set_engine => instance'._engine = instance._engine
          /\ (outcome'.args.set_engine /\ outcome'.exc = None /\ outcome'.op # "set_engine")
                => outcome'.val.engine = instance'._engine]_vars

\* No two distinct names of d belong to one conflict group.
ConflictFree(d) ==
    \A name \in DOMAIN d : \A eq \in DOMAIN d : eq \in find_conflicts(name) => eq = name

\* C15: in merge_params(args, moreargs) every name of moreargs carries
\* moreargs' value; a name that only args gives is in the result, with args'
\* value, exactly when no name of moreargs belongs to its conflict group; the
\* result has no other name; and when args and moreargs are each free of
\* conflicts the result has at most one name of every conflict group.
C15_MoreargsPriority ==
    outcome.op = "merge_params" =>
        LET args == outcome.args.args
            moreargs == outcome.args.moreargs
            merged == outcome.val
        IN /\ \A name \in DOMAIN moreargs : name \in DOMAIN merged /\ merged[name] = moreargs[name]
           /\ \A name \in DOMAIN args \ DOMAIN moreargs :
                 /\ name \in DOMAIN merged <=> ~\E more \in DOMAIN moreargs : more \in find_conflicts(name)
                 /\ name \in DOMAIN merged => merged[name] = args[name]
           /\ DOMAIN merged \subseteq DOMAIN args \cup DOMAIN moreargs
           /\ ConflictFree(args) /\ ConflictFree(moreargs) => ConflictFree(merged)

\* The defaults merged with a caller's H0 and omega_cdm: h and Omega_cdm left, n_s stayed.
C15_Witness ==
    /\ outcome.op = "merge_params"
    /\ outcome.args.args = get_default_parameters
    /\ DOMAIN outcome.args.moreargs = {"H0", "omega_cdm"}
    /\ DOMAIN outcome.val \cap {"h", "H0", "Omega_cdm", "omega_cdm", "n_s"} = {"H0", "omega_cdm", "n_s"}

\* The canonical names of the groups whose names compile_params converts,
\* and the other names of these groups.
CanonicalNames == {"h", "T_cmb", "Omega_b", "Omega_cdm", "N_ur", "m_ncdm"}
AliasNames == UNION {find_conflicts(name) : name \in CanonicalNames} \ CanonicalNames

\* C17: whichever names of the conflict groups of h, T_cmb, Omega_b,
\* Omega_cdm, N_ur and m_ncdm a caller gives to Cosmology, one of a group at
\* most, with no engine or a registered one, the cosmology is built and its
\* compiled dictionary contains the six canonical names and none of the other
\* names of these groups.
C17_CompiledNamesCanonical ==
    (/\ outcome.op = "Cosmology"
     /\ (outcome.args.engine = None \/ outcome.args.engine.name \in RegisteredEngine)
     /\ DOMAIN outcome.args.params \subseteq CanonicalNames \cup AliasNames
     /\ ConflictFree(outcome.args.params))
    => /\ outcome.exc = None
       /\ CanonicalNames \subseteq DOMAIN instance.params
       /\ DOMAIN instance.params \cap AliasNames = {}

\* C16: Cosmology(**params) and clone(**params), with no engine or a
\* registered one, raise CosmologyError exactly when params has two distinct
\* names of one conflict group; then no cosmology is returned and clone
\* leaves the original as it was; otherwise params is accepted: the call
\* returns a cosmology.
C16_CosmologyErrorIffConflict ==
    [][(/\ outcome'.op \in {"Cosmology", "clone"}
        /\ (outcome'.args.engine = None \/ outcome'.args.engine.name \in RegisteredEngine))
       => LET raised == outcome'.exc # None
              new == IF outcome'.op = "clone" THEN outcome'.val ELSE instance'
          IN /\ (raised /\ outcome'.exc.type = "CosmologyError") <=> ~ConflictFree(outcome'.args.params)
             /\ ~ConflictFree(outcome'.args.params)
                   => /\ new = None
                      /\ outcome'.op = "clone" => instance' = instance
             /\ ConflictFree(outcome'.args.params) => ~raised /\ new # None]_vars

\* C18: a clone(engine, extra_params, **params) that returns leaves the
\* original cosmology as it was; the parameters of the new cosmology are
\* compiled from the original's merged with params, params having priority;
\* its engine is a new engine built from
\* the new parameters, of the requested name or else of the original's, with
\* the given extra_params or else the original engine's, and it has no engine
\* when the original has none and none is requested; clone() with no
\* arguments compares equal to the original.
C18_CloneFrame ==
    [][(outcome'.op = "clone" /\ outcome'.exc = None)
       => LET new == outcome'.val
              args == outcome'.args
              params == args.params
              name == IF args.engine # None THEN args.engine.name
                      ELSE IF instance._engine # None THEN instance._engine.name
                      ELSE ""
              extra_params == IF args.extra_params # None THEN args.extra_params
                              ELSE IF instance._engine # None THEN instance._engine.extra_params
                              ELSE NoExtraParams
          IN /\ instance' = instance
             /\ new.params = compile_params(merge_params(instance.params, params)).params
             /\ new._engine = IF name = "" THEN None ELSE Engine(name, new.params, extra_params)
             /\ (params = << >> /\ args.engine = None /\ args.extra_params = None)
                   => Cosmology__eq__(instance, new)]_vars

(* -------------------------- properties of classy ----------------------- *)
\* C19: for the CLASS engine, Primordial.table() returns the primordial
\* table with the k column as pyclass gives it and every other column
\* multiplied by the square of the sigma8 rescaling factor, as
\* Harmonic.unlensed_table does with its ell column and its other columns.
C19_PrimordialTableRescaled ==
    outcome.op \in {"Primordial.table", "Harmonic.unlensed_table"} =>
        LET primordial == outcome.op = "Primordial.table"
            abscissa == IF primordial THEN "k" ELSE "ell"
            section == [section |-> IF primordial THEN "primordial" ELSE "harmonic",
                        engine |-> instance._engine]
            table == pyclass_table(section, abscissa, IF primordial THEN "P_scalar" ELSE "tt")
        IN /\ outcome.exc = None
           /\ outcome.val # None
           /\ DOMAIN outcome.val = DOMAIN table
           /\ \A name \in DOMAIN table :
                 outcome.val[name] =
                    IF name = abscissa THEN table[name]
                    ELSE Derived("*= self._rsigma8**2", <<table[name], _rescale_sigma8(instance._engine)>>)


(* ---------------------- properties of Wallish2018 ---------------------- *)
WallishReturned == EngineReturned /\ HasAttr(self, "k") /\ self.name = "wallish2018"
Blended(v) == "f" \in DOMAIN v /\ v.f = "pk / wiggles"

\* C21: in a Wallish2018 engine that returned, the knots of the stitched
\* spline are the main-grid points with k < 5e-4 (raw pk), the fine-grid
\* points with 0.01 < k < 1.5 (smooth reconstruction) and the main-grid points
\* with k > 2 (raw pk), in strictly increasing order; pknow = pk at every
\* main-grid point with k < 5e-4 or k > 2; and at every other filtered point
\* with k <= 1 the taper is 1, the wiggle ratio being pk over the spline.
C21_StitchedKnots ==
    WallishReturned =>
        \A i \in DOMAIN self.k : \A j \in DOMAIN self.pk.rows[i] :
            LET v == self.pknow.rows[i][j]
            IN /\ (self.k[i] < 50 \/ self.k[i] > 200000) => v = self.pk.rows[i][j]
               /\ Blended(v) =>
                     /\ self.k[i] <= 100000 => v.wiggles.tophat = One
                     /\ v.wiggles.pk = self.pk.rows[i][j] /\ v.pk = self.pk.rows[i][j]
                     /\ v.wiggles.pknow.f = "CubicSpline" =>
                           LET s == v.wiggles.pknow
                           IN /\ \A n \in DOMAIN s.left : s.left[n] < 50
                              /\ \A n \in DOMAIN s.right : s.right[n] > 200000
                              /\ \A n, m \in DOMAIN s.left : n < m => s.left[n] < s.left[m]
                              /\ \A n, m \in DOMAIN s.right : n < m => s.right[n] < s.right[m]
                              /\ s.fine4095 # <<>> =>
                                    /\ 1000 * 4095 < s.fine4095[1]
                                    /\ s.fine4095[1] < s.fine4095[2]
                                    /\ s.fine4095[2] < 150000 * 4095
                              /\ Range(s.left) = {self.k[m] : m \in {m \in DOMAIN self.k : self.k[m] < 50}}
                              /\ Range(s.right) = {self.k[m] : m \in {m \in DOMAIN self.k : self.k[m] > 200000}}

\* C21 witness: a Wallish2018 engine on a grid with points below 5e-4 and
\* above 2 h/Mpc, and blended points between them, below and above 1 h/Mpc.
C21_Witness ==
    /\ WallishReturned
    /\ \E i \in DOMAIN self.k : self.k[i] < 50 /\ self.pknow.rows[i] = self.pk.rows[i]
    /\ \E i \in DOMAIN self.k : self.k[i] > 200000 /\ self.pknow.rows[i] = self.pk.rows[i]
    /\ \E i \in DOMAIN self.k : /\ self.k[i] <= 100000 /\ Blended(self.pknow.rows[i][1])
                                /\ self.pknow.rows[i][1].wiggles.tophat = One
                                /\ self.pknow.rows[i][1].wiggles.pknow.f = "CubicSpline"
    /\ \E i \in DOMAIN self.k : /\ self.k[i] > 100000 /\ Blended(self.pknow.rows[i][1])
                                /\ self.pknow.rows[i][1].wiggles.tophat # One


\* C22: the window excised from the even and from the odd sub-sequence is
\* computed by one rule: the peak is the argmax of the second derivative over
\* the indices >= 20, the window starts 10 below the peak, and its end is
\* derived by the same expression in both cases, so that two sub-sequences
\* with identical second derivatives get identical windows.
C22_SameWindowRule ==
    (HasAttr(self, "_even_now") /\ HasAttr(self, "_odd_now")) =>
        /\ self._even_now.excised[1] = argmax(self._dd_even, 20) + 20 - 10
        /\ self._odd_now.excised[1] = argmax(self._dd_odd, 20) + 20 - 10
        /\ self._dd_even = self._dd_odd => self._even_now.excised = self._odd_now.excised


(* ----------------------- properties of Hinton2017 ---------------------- *)
HintonReturned == EngineReturned /\ HasAttr(self, "k") /\ self.name = "hinton2017"
Fitted(v) == "f" \in DOMAIN v /\ v.f = "10**model"

\* C23: Hinton2017 fits a polynomial of degree `degree` (13 by default): the
\* design matrix of every fitted value has the powers 0, 1, ..., degree of
\* the centred log k, that is degree + 1 coefficients.
C23_PolynomialDegree ==
    HintonReturned =>
        \A i \in DOMAIN self.k : \A j \in DOMAIN self.pknow.rows[i] :
            Fitted(self.pknow.rows[i][j]) =>
                /\ Len(self.pknow.rows[i][j].lss.powers) = self.degree + 1
                /\ Range(self.pknow.rows[i][j].lss.powers) = 0..self.degree


(* ------------------ properties of the peak envelopes ------------------- *)
\* The nodes cover the domain x: they start at its first and end at its last
\* point, increase strictly, and are enough for a quadratic interpolation.
CoversDomain(nodes, x) ==
    /\ Len(nodes) >= 3
    /\ nodes[1] = x[1] /\ nodes[Len(nodes)] = x[Len(x)]
    /\ StrictlyIncreasing(nodes)

\* C26: whenever a peak of each kind is found, each extended peak set of
\* Brieden2022 (over k_fid) and of PeakAverage (over the full grid) has the
\* first point of the domain as first node and the last point as last node,
\* strictly increasing nodes, and at least three of them.
C26_PeakSetsCoverDomain ==
    /\ HasAttr(self, "ik_fid_peaks") =>
          \A s \in 1..2 : CoversDomain([n \in DOMAIN self.ik_fid_peaks[s] |->
                                           PyAt(self.k_fid, self.ik_fid_peaks[s][n])], self.k_fid)
    /\ (HasAttr(self, "k_peaks") /\ Len(self.k_peaks) = 2) =>
          \A s \in 1..2 : CoversDomain(self.k_peaks[s], self.k)


\* C24: for a 2-D input the peak information comes from one slice and serves
\* all: the Gaussian down-weighting of Hinton2017 is centred, in the fit of
\* every redshift column, on the maximum of the samples of the first column
\* only (with the same abscissas, width and strength), and the peak indices of
\* Brieden2022, found once on the single column of the fiducial ratio in
\* _prepare, are the ones used for every redshift column.
C24_PeaksFromFirstSlice ==
    /\ HintonReturned =>
          \A i \in DOMAIN self.k : \A j \in DOMAIN self.pknow.rows[i] :
              Fitted(self.pknow.rows[i][j]) =>
                  LET own == self.pknow.rows[i][j].lss
                      first == self.pknow.rows[i][1].lss
                  IN /\ own.maxk_of = {[src |-> self.pk.rows[m][1].src, z |-> self.pk.rows[m][1].z] :
                                          m \in {m \in DOMAIN self.k : self.k[m] > 10 /\ self.k[m] < 500000}}
                     /\ own.maxk_of = first.maxk_of /\ own.x = first.x
                     /\ own.sigma = first.sigma /\ own.weight = first.weight
    /\ (EngineReturned /\ HasAttr(self, "k") /\ self.name = "brieden2022") =>
          /\ nprepare = 1
          /\ \A i \in DOMAIN self.k : \A j \in DOMAIN self.pknow.rows[i] :
                self.kmask_fid[i] =>
                    /\ self.pknow.rows[i][j].of.ik_fid_peaks = self.ik_fid_peaks
                    /\ self.pknow.rows[i][j].of.ratio_fid = self.ratio_fid
          /\ \A s \in 1..2 : \A n \in DOMAIN self.ik_fid_peaks[s] :
                self.ik_fid_peaks[s][n] \in (-1)..(Len(self.ratio_fid.v) - 1)

\* C24 witness: a Hinton2017 engine on a 2-D interpolator whose second
\* column is fitted to samples other than those that centre its weights.
C24_Witness ==
    /\ HintonReturned /\ self.is2d
    /\ \E i \in DOMAIN self.k : /\ Fitted(self.pknow.rows[i][2])
                                /\ self.pknow.rows[i][2].lss.y # self.pknow.rows[i][2].lss.maxk_of
                                /\ self.pknow.rows[i][1].lss.y = self.pknow.rows[i][1].lss.maxk_of


(* -------------------------- properties of SavGol ----------------------- *)
\* The largest c the window-length rule is checked for.
MaxC == 8
Odd(n) == n % 2 = 1

\* C25: the Savitzky-Golay window length is nfilter = 2 * floor(c / 2) + 1
\* with c = ceil(ln 7 / ln(k[-1] / k[-2])): for every integer c >= 0 it is a
\* positive odd integer, c itself when c is odd and c + 1 when c is even,
\* never below c; and an engine that returned has filtered with that window
\* and copied from the raw spectrum exactly its last nfilter // 2 samples.
C25_WindowLength ==
    /\ \A c \in 0..MaxC : /\ nfilter_of(c) > 0 /\ Odd(nfilter_of(c)) /\ nfilter_of(c) >= c
                          /\ nfilter_of(c) = IF Odd(c) THEN c ELSE c + 1
    /\ (EngineReturned /\ HasAttr(self, "k") /\ self.name = "savgol") =>
          LET nk == Len(self.k)
              c == CeilLog7(self.k[nk], self.k[nk - 1])
              n == IF Odd(c) THEN c ELSE c + 1
          IN \A i \in DOMAIN self.k : \A j \in DOMAIN self.pknow.rows[i] :
                IF i > nk - n \div 2
                THEN self.pknow.rows[i][j] = self.pk.rows[i][j]
                ELSE /\ self.pknow.rows[i][j] # self.pk.rows[i][j]
                     /\ self.pknow.rows[i][j].window_length = n

\* C25 witness: a SavGol engine whose grid has an even c (k[-1] / k[-2] =
\* 7 / 4, c = 4, window 5), with its last two samples copied.
C25_Witness ==
    /\ EngineReturned /\ HasAttr(self, "k") /\ self.name = "savgol"
    /\ CeilLog7(self.k[Len(self.k)], self.k[Len(self.k) - 1]) = 4
    /\ self.pknow.rows[1][1].window_length = 5
    /\ self.pknow.rows[Len(self.k) - 1] = self.pk.rows[Len(self.k) - 1]
    /\ self.pknow.rows[Len(self.k) - 2] # self.pk.rows[Len(self.k) - 2]


(* --------------------- properties of rs_drag_ratio --------------------- *)
\* What rs_drag_ratio() returns or raises on the engine as it is now.
RatioNow ==
    IF IsPk THEN rs_drag_ratio(Frame(self, OkEnv)) ELSE xi_rs_drag_ratio(Frame(self, OkEnv))

\* C27: the result of rs_drag_ratio() is stable over the engine's life: at
\* any time after the construction, whatever the filter's computation and
\* earlier reads of cosmo and cosmo_fid did, an engine built or last invoked
\* without a current cosmology returns 1, and an engine given a current but
\* no fiducial cosmology returns the current rs_drag over the fixed constant.
C27_RatioStable ==
    (IsPk \/ IsXi) =>
        /\ given.cosmo = None => RatioNow.exc = None /\ RatioNow.val = One
        /\ (given.cosmo # None /\ given.cosmo_fid = None) =>
              /\ RatioNow.exc = None
              /\ RatioNow.val = Quot(rs_drag(given.cosmo._engine), rs_drag_fid)


(* --------------------- properties of engine sections ------------------- *)
\* The factor sigma8 / sigma8_m of the engine, sigma8_m being that of a
\* Fourier section built with the provisional factor 1.
FinalFactor == _rescale_sigma8([params |-> instance._params])
Carries(section, factor) == "_rsigma8" \in DOMAIN section => section._rsigma8 = factor
HasSigma8 == instance # None /\ "sigma8" \in DOMAIN instance._params

\* C28: for an engine whose parameters give sigma8, after any sequence of
\* section-getter calls every call has returned (the nested construction of
\* the Fourier section inside _rescale_sigma8 ends), the factor has been
\* computed at most once, and exactly once as soon as a section that carries
\* it has been asked for, and every section in the cache or returned to the
\* caller carries the engine's final factor, never the provisional 1.
C28_FactorOnceAndFinal ==
    HasSigma8 =>
        /\ outcome.exc = None
        /\ Count(trace, "self['sigma8'] / fo.sigma8_m") = (IF HasAttr(instance, "_rsigma8") THEN 1 ELSE 0)
        /\ HasAttr(instance, "_rsigma8") <=>
              \/ \E name \in RescaledSections : name \in DOMAIN instance._sections
              \/ outcome.op = "get_section" /\ outcome.args.name \in RescaledSections
        /\ HasAttr(instance, "_rsigma8") => instance._rsigma8 = FinalFactor
        /\ FinalFactor # [raw |-> 1]
        /\ \A name \in DOMAIN instance._sections :
              /\ instance._sections[name].section = name
              /\ Carries(instance._sections[name], FinalFactor)
              /\ name \in RescaledSections => "_rsigma8" \in DOMAIN instance._sections[name]
        /\ outcome.op = "get_section" =>
              /\ outcome.val = instance._sections[outcome.args.name]
              /\ Carries(outcome.val, FinalFactor)

\* C28 witness: an engine with sigma8 that caches the three rescaled sections
\* and one that carries no factor, whose last call returned the Fourier
\* section with the final factor, the factor having been computed once.
C28_Witness ==
    /\ HasSigma8 /\ outcome.op = "get_section" /\ outcome.args.name = "fourier"
    /\ RescaledSections \subseteq DOMAIN instance._sections
    /\ "background" \in DOMAIN instance._sections
    /\ outcome.val._rsigma8 = FinalFactor
    /\ Len(trace) = 1


\* A Wallish2018 engine was constructed or re-invoked, on an interpolator
\* with extrap_kmin < extrap_kmax.
WallishRan ==
    /\ \/ ret.op = "PowerSpectrumBAOFilter" /\ lower(ret.args.engine) = lower(<<"W", "A", "L", "L", "I", "S", "H", "2", "0", "1", "8">>)
       \/ ret.op = "__call__" /\ IsPk /\ self.name = "wallish2018"
    /\ ret.args.interpolator.extrap_kmin < ret.args.interpolator.extrap_kmax
\* 0 < lo <= hi < N - 1 for the window excised from a sub-sequence of length N
WindowInside(smoothed, dd) ==
    /\ 0 < smoothed.excised[1] /\ smoothed.excised[1] <= smoothed.excised[2]
    /\ smoothed.excised[2] < dd.N - 1

\* C29: for every interpolator the constructor accepts, Wallish2018 returns
\* with a defined (non-NaN) pknow at every main-grid point: the slices
\* searched for the windows' ends are non-empty, both excised windows
\* [lo, hi] satisfy 0 < lo <= hi < N - 1, and every main-grid k lies between
\* the first and the last knot of the stitched spline.
C29_WallishDefinedEverywhere ==
    WallishRan =>
        /\ ret.exc = None
        /\ WindowInside(self._even_now, self._dd_even)
        /\ WindowInside(self._odd_now, self._dd_odd)
        /\ \A i \in DOMAIN self.k : \A j \in DOMAIN self.pknow.rows[i] :
              Blended(self.pknow.rows[i][j]) => self.pknow.rows[i][j].wiggles.pknow # NaN

====
